---- MODULE Spec2Model ----
(***************************************************************************)
(* A model of the position store, the nearest-neighbour search, the        *)
(* cluster finder and the JSON/CSV persistence of the tracker.             *)
(*                                                                         *)
(* Coordinates are Python floats in the source.  Here a coordinate is an   *)
(* integer number of 1/Scale pixels, so that positions that differ by a    *)
(* fraction of a pixel exist.  Squared distances are therefore in units of *)
(* 1/Scale^2 square pixels, and a pixel distance d is compared as d*Scale. *)
(***************************************************************************)
EXTENDS Integers, Sequences, FiniteSets, TLC

VARIABLES
    \* get_closest_n_particles: arguments, loop position, locals, result
    nn_particles, nn_search, nn_amount, nn_max_distance,
    nn_i, nn_closest, nn_pc, nn_result,
    \* Particle.__eq__: the two operands and the value returned
    eq_self, eq_other, eq_result,
    \* Experiment: _time_points, _first_time_point_number,
    \* _last_time_point_number, the exception of the last call, and what the
    \* last walk over time_points() yielded
    exp_time_points, exp_first, exp_last, exp_raised, exp_walk,
    \* find_clusters: the connections and time point given, the positions
    \* still to look at, the search queue, the cluster being built, the
    \* clusters found
    cf_connections, cf_time_point, cf_todo, cf_queue, cf_cluster,
    cf_clusters, cf_pc,
    \* imaging.io of autotrack: the experiment in memory, the JSON file on
    \* disk, the last save and the last load
    io_experiment, io_file, io_saved, io_loaded,
    \* save_dataframe_to_csv: the directory and the files on disk (what a
    \* write to each path does, and what the file holds), and the last call
    csv_directory, csv_access, csv_content, csv_call,
    \* a save function step by step: the function and its position, the
    \* depth of the target's parent directory, the directories that exist
    \* (a chain 1..sv_dirs), the inputs that make a step raise, and the file
    \* system calls made so far
    sv_function, sv_pc, sv_depth, sv_dirs, sv_raises, sv_log,
    \* a Path: its fields and the last call made on it
    pt_x_list, pt_y_list, pt_z, pt_interpolation, pt_offset, pt_call,
    \* a PathCollection: the paths of each time point, and the last call made on it
    pc_paths, pc_call,
    \* the links between positions, the score of a division, the error of each
    \* position, and the last severity and message looked up
    er_links, er_score, er_errors, er_lookup,
    \* TimePoint._mother_scores, the score last passed for each family, and the
    \* last call of mother_score
    ms_scores, ms_given, ms_call,
    \* ImageOffsets: the offset of each time point, the update made on the object
    \* and the last call of of_time_point
    of_offset, of_updated, of_query,
    \* the experiment of the window with its unsaved-changes marker, the number of
    \* experiments created, the data file, whether the application quit, the last action
    gu_experiment, gu_created, gu_file, gu_quit, gu_call,
    \* the scratch and the baseline links of the experiment, the time point shown, and
    \* the last call of _draw_links
    lk_scratch, lk_baseline, lk_time_point, lk_call,
    \* the label image, and the last call of create_labels
    lb_output, lb_call,
    \* Experiment._particle_links and _particle_links_baseline, the scratch links that
    \* were set first, and the last call of particle_links_scratch or particle_links
    ps_links, ps_links_baseline, ps_first, ps_call,
    \* the links extracted from the legacy tracks, and the last call of
    \* _extract_links_from_track
    gz_links, gz_call,
    \* the list objects of the paths, the Path objects (the original and, once it
    \* was made, its copy), and the last call
    cp_lists, cp_paths, cp_call,
    \* the candidate particles and the search position of the nearest-neighbour
    \* searches, the first result of every search made, and the last search
    cs_particles, cs_search, cs_history, cs_call,
    \* the displayed layer, the time point, the image stack (its number of layers)
    \* and the display settings of the image viewer, and the last call
    vw_z, vw_time_point, vw_images, vw_settings, vw_call

nn_vars == <<nn_particles, nn_search, nn_amount, nn_max_distance,
             nn_i, nn_closest, nn_pc, nn_result>>

eq_vars == <<eq_self, eq_other, eq_result>>
exp_vars == <<exp_time_points, exp_first, exp_last, exp_raised, exp_walk>>
cf_vars == <<cf_connections, cf_time_point, cf_todo, cf_queue, cf_cluster,
             cf_clusters, cf_pc>>

io_vars == <<io_experiment, io_file, io_saved, io_loaded>>

csv_vars == <<csv_directory, csv_access, csv_content, csv_call>>

sv_vars == <<sv_function, sv_pc, sv_depth, sv_dirs, sv_raises, sv_log>>

pt_vars == <<pt_x_list, pt_y_list, pt_z, pt_interpolation, pt_offset, pt_call>>

pc_vars == <<pc_paths, pc_call>>

er_vars == <<er_links, er_score, er_errors, er_lookup>>

ms_vars == <<ms_scores, ms_given, ms_call>>

of_vars == <<of_offset, of_updated, of_query>>

gu_vars == <<gu_experiment, gu_created, gu_file, gu_quit, gu_call>>

lk_vars == <<lk_scratch, lk_baseline, lk_time_point, lk_call>>

lb_vars == <<lb_output, lb_call>>

ps_vars == <<ps_links, ps_links_baseline, ps_first, ps_call>>

gz_vars == <<gz_links, gz_call>>

cp_vars == <<cp_lists, cp_paths, cp_call>>

cs_vars == <<cs_particles, cs_search, cs_history, cs_call>>

vw_vars == <<vw_z, vw_time_point, vw_images, vw_settings, vw_call>>

vars == <<nn_vars, eq_vars, exp_vars, cf_vars, io_vars, csv_vars, sv_vars, pt_vars, pc_vars, er_vars, ms_vars, of_vars, gu_vars, lk_vars, lb_vars, ps_vars, gz_vars, cp_vars, cs_vars, vw_vars>>

\* What each part of the program leaves alone
nn_others == <<eq_vars, exp_vars, cf_vars, io_vars, csv_vars, sv_vars, pt_vars, pc_vars, er_vars, ms_vars, of_vars, gu_vars, lk_vars, lb_vars, ps_vars, gz_vars, cp_vars, cs_vars, vw_vars>>
eq_others == <<nn_vars, exp_vars, cf_vars, io_vars, csv_vars, sv_vars, pt_vars, pc_vars, er_vars, ms_vars, of_vars, gu_vars, lk_vars, lb_vars, ps_vars, gz_vars, cp_vars, cs_vars, vw_vars>>
exp_others == <<nn_vars, eq_vars, cf_vars, io_vars, csv_vars, sv_vars, pt_vars, pc_vars, er_vars, ms_vars, of_vars, gu_vars, lk_vars, lb_vars, ps_vars, gz_vars, cp_vars, cs_vars, vw_vars>>
cf_others == <<nn_vars, eq_vars, exp_vars, io_vars, csv_vars, sv_vars, pt_vars, pc_vars, er_vars, ms_vars, of_vars, gu_vars, lk_vars, lb_vars, ps_vars, gz_vars, cp_vars, cs_vars, vw_vars>>
io_others == <<nn_vars, eq_vars, exp_vars, cf_vars, csv_vars, sv_vars, pt_vars, pc_vars, er_vars, ms_vars, of_vars, gu_vars, lk_vars, lb_vars, ps_vars, gz_vars, cp_vars, cs_vars, vw_vars>>
csv_others == <<nn_vars, eq_vars, exp_vars, cf_vars, io_vars, sv_vars, pt_vars, pc_vars, er_vars, ms_vars, of_vars, gu_vars, lk_vars, lb_vars, ps_vars, gz_vars, cp_vars, cs_vars, vw_vars>>
sv_others == <<nn_vars, eq_vars, exp_vars, cf_vars, io_vars, csv_vars, pt_vars, pc_vars, er_vars, ms_vars, of_vars, gu_vars, lk_vars, lb_vars, ps_vars, gz_vars, cp_vars, cs_vars, vw_vars>>
pt_others == <<nn_vars, eq_vars, exp_vars, cf_vars, io_vars, csv_vars, sv_vars, pc_vars, er_vars, ms_vars, of_vars, gu_vars, lk_vars, lb_vars, ps_vars, gz_vars, cp_vars, cs_vars, vw_vars>>
pc_others == <<nn_vars, eq_vars, exp_vars, cf_vars, io_vars, csv_vars, sv_vars, pt_vars, er_vars, ms_vars, of_vars, gu_vars, lk_vars, lb_vars, ps_vars, gz_vars, cp_vars, cs_vars, vw_vars>>
er_others == <<nn_vars, eq_vars, exp_vars, cf_vars, io_vars, csv_vars, sv_vars, pt_vars, pc_vars, ms_vars, of_vars, gu_vars, lk_vars, lb_vars, ps_vars, gz_vars, cp_vars, cs_vars, vw_vars>>
ms_others == <<nn_vars, eq_vars, exp_vars, cf_vars, io_vars, csv_vars, sv_vars, pt_vars, pc_vars, er_vars, of_vars, gu_vars, lk_vars, lb_vars, ps_vars, gz_vars, cp_vars, cs_vars, vw_vars>>
of_others == <<nn_vars, eq_vars, exp_vars, cf_vars, io_vars, csv_vars, sv_vars, pt_vars, pc_vars, er_vars, ms_vars, gu_vars, lk_vars, lb_vars, ps_vars, gz_vars, cp_vars, cs_vars, vw_vars>>
gu_others == <<nn_vars, eq_vars, exp_vars, cf_vars, io_vars, csv_vars, sv_vars, pt_vars, pc_vars, er_vars, ms_vars, of_vars, lk_vars, lb_vars, ps_vars, gz_vars, cp_vars, cs_vars, vw_vars>>
lk_others == <<nn_vars, eq_vars, exp_vars, cf_vars, io_vars, csv_vars, sv_vars, pt_vars, pc_vars, er_vars, ms_vars, of_vars, gu_vars, lb_vars, ps_vars, gz_vars, cp_vars, cs_vars, vw_vars>>
lb_others == <<nn_vars, eq_vars, exp_vars, cf_vars, io_vars, csv_vars, sv_vars, pt_vars, pc_vars, er_vars, ms_vars, of_vars, gu_vars, lk_vars, ps_vars, gz_vars, cp_vars, cs_vars, vw_vars>>
ps_others == <<nn_vars, eq_vars, exp_vars, cf_vars, io_vars, csv_vars, sv_vars, pt_vars, pc_vars, er_vars, ms_vars, of_vars, gu_vars, lk_vars, lb_vars, gz_vars, cp_vars, cs_vars, vw_vars>>
gz_others == <<nn_vars, eq_vars, exp_vars, cf_vars, io_vars, csv_vars, sv_vars, pt_vars, pc_vars, er_vars, ms_vars, of_vars, gu_vars, lk_vars, lb_vars, ps_vars, cp_vars, cs_vars, vw_vars>>
cp_others == <<nn_vars, eq_vars, exp_vars, cf_vars, io_vars, csv_vars, sv_vars, pt_vars, pc_vars, er_vars, ms_vars, of_vars, gu_vars, lk_vars, lb_vars, ps_vars, gz_vars, cs_vars, vw_vars>>
cs_others == <<nn_vars, eq_vars, exp_vars, cf_vars, io_vars, csv_vars, sv_vars, pt_vars, pc_vars, er_vars, ms_vars, of_vars, gu_vars, lk_vars, lb_vars, ps_vars, gz_vars, cp_vars, vw_vars>>
vw_others == <<nn_vars, eq_vars, exp_vars, cf_vars, io_vars, csv_vars, sv_vars, pt_vars, pc_vars, er_vars, ms_vars, of_vars, gu_vars, lk_vars, lb_vars, ps_vars, gz_vars, cp_vars, cs_vars>>

-----------------------------------------------------------------------------
(* Bounds of the model *)

MaxY == 3
MaxCand == 3
MaxAmount == 2
MaxTime == 3
MaxParticles == 2
MaxClusterPositions == 6
MaxIoParticles == 2
MaxIoLinks == 1
MaxIoFamilies == 1
MaxFrames == 1
MaxDepth == 2
FloatBits == 5
MaxPathX == 2
MaxPathParticles == 2
MaxPaths == 2
MaxDaughters == 3
MaxScoreValue == 2
MaxOffsetTime == 2
MaxShift == 1
MaxExperiments == 3
MaxEdits == 2
MaxLinks == 2
MaxLabelParticles == 2
MaxTrackLength == 3
MaxTrackFiles == 2
MaxSearchCandidates == 2
MaxSearches == 3
MaxZ == 4
MaxLayers == 3
MaxViewTime == 2

-----------------------------------------------------------------------------
(* Python values *)

\* Optional[int]: None is the empty tuple, a present value v is <<v>>.
None == <<>>
Some(v) == <<v>>

Abs(a) == IF a < 0 THEN -a ELSE a
Min2(a, b) == IF a < b THEN a ELSE b
Max2(a, b) == IF a < b THEN b ELSE a

\* Coordinates are stored in units of 1/Scale pixel.
Scale == 2

\* int(x) of a float: truncation towards zero.
PyInt(v) == IF v >= 0 THEN v \div Scale ELSE -((-v) \div Scale)

\* hash(n) of a small int: the int itself, except that -1 hashes to -2.
PyHashInt(n) == IF n = -1 THEN -2 ELSE n

\* a ^ b on Python ints (two's complement, sign extended), for |a|,|b| < 2^15.
RECURSIVE XorBits(_, _, _)
XorBits(a, b, n) ==
    IF n = 0 THEN 0
    ELSE (((a % 2) + (b % 2)) % 2) + (2 * XorBits(a \div 2, b \div 2, n - 1))
PyXor(a, b) ==
    LET r == XorBits(a % 65536, b % 65536, 16)
    IN IF r >= 32768 THEN r - 65536 ELSE r

-----------------------------------------------------------------------------
(* class Particle *)

Particle(x, y, z) == [x |-> x, y |-> y, z |-> z, time_point_number |-> None]

\* Particle.with_time_point_number, on a particle that has none yet
with_time_point_number(p, t) == [p EXCEPT !.time_point_number = Some(t)]

\* Particle.distance_squared (z_factor defaults to 5)
ZFactor == 5
distance_squared(self, other) ==
      (self.x - other.x) * (self.x - other.x)
    + (self.y - other.y) * (self.y - other.y)
    + ((self.z - other.z) * ZFactor) * ((self.z - other.z) * ZFactor)

\* abs(a - b) < 0.00001, the coordinates being a/Scale and b/Scale
EpsilonInverse == 100000
CloseTo(a, b) == Abs(a - b) * EpsilonInverse < Scale

\* Particle.__eq__ : x is compared twice, y is never compared
ParticleEq(self, other) ==
    /\ CloseTo(self.x, other.x)
    /\ CloseTo(self.x, other.x)
    /\ CloseTo(self.z, other.z)
    /\ self.time_point_number = other.time_point_number

\* Particle.__hash__ (of a particle that has a time point number)
ParticleHash(self) ==
    PyXor(PyXor(PyXor(PyHashInt(PyInt(self.x)), PyHashInt(PyInt(self.y))),
                PyHashInt(PyInt(self.z))),
          PyHashInt(self.time_point_number[1]))

\* Two objects are the same element of a Python set or the same dict key
\* when their hashes are equal and __eq__ holds.
SameSetElement(p, q) == ParticleHash(p) = ParticleHash(q) /\ ParticleEq(p, q)

-----------------------------------------------------------------------------
(* get_closest_n_particles *)

\* closest_particles holds tuples (distance_squared, particle); the particle
\* is kept as its index in the candidate list, which is its identity.
NNEntry(d, i) == <<d, i>>

\* list.sort(key=itemgetter(0)): a stable sort on the first tuple element.
RECURSIVE SortedInsert(_, _)
SortedInsert(sorted, e) ==
    IF sorted = <<>> THEN <<e>>
    ELSE IF sorted[Len(sorted)][1] <= e[1] THEN Append(sorted, e)
    ELSE Append(SortedInsert(SubSeq(sorted, 1, Len(sorted) - 1), e),
                sorted[Len(sorted)])
RECURSIVE StableSort(_)
StableSort(s) ==
    IF s = <<>> THEN <<>>
    ELSE SortedInsert(StableSort(SubSeq(s, 1, Len(s) - 1)), s[Len(s)])

\* del closest_particles[-1]
RemoveIndexFirst(s) == SubSeq(s, 2, Len(s))
RemoveFurthest(s) == SubSeq(s, 1, Len(s) - 1)

\* the body of the loop for one candidate (lines 344-353)
ClosestAfter(closest, particles, search, amount, max_distance, i) ==
    LET d2 == distance_squared(particles[i], search)
        max_distance_squared == (max_distance * Scale) * (max_distance * Scale)
    IN IF d2 > max_distance_squared THEN closest
       ELSE IF Len(closest) < amount \/ closest[Len(closest)][1] > d2
            THEN LET appended == StableSort(Append(closest, NNEntry(d2, i)))
                 IN IF Len(appended) > amount THEN RemoveFurthest(appended)
                    ELSE appended
            ELSE closest

\* return_value = set(); return_value.add(particle) for each list entry
RECURSIVE ReturnValue(_, _)
ReturnValue(closest, particles) ==
    IF closest = <<>> THEN {}
    ELSE LET before == ReturnValue(SubSeq(closest, 1, Len(closest) - 1), particles)
             i == closest[Len(closest)][2]
         IN IF \E j \in before : SameSetElement(particles[j], particles[i])
            THEN before
            ELSE before \cup {i}

\* Candidate positions and queries of the model
NNCoordinates ==
    {with_time_point_number(Particle(0, y, z), 1) : y \in 0..MaxY, z \in {0, 1}}
NNSearchPositions ==
    {with_time_point_number(Particle(0, y, 0), 1) : y \in {-Scale, 1}}
NNMaxDistances == {1, 2}

RECURSIVE SeqsUpTo(_, _)
SeqsUpTo(S, n) ==
    IF n = 0 THEN {<<>>}
    ELSE LET shorter == SeqsUpTo(S, n - 1)
         IN shorter \cup {Append(s, e) : s \in {t \in shorter : Len(t) = n - 1}, e \in S}

NNInit ==
    /\ nn_particles \in SeqsUpTo(NNCoordinates, MaxCand)
    /\ nn_search \in NNSearchPositions
    /\ nn_amount \in 1..MaxAmount
    /\ nn_max_distance \in NNMaxDistances
    /\ nn_i = 1
    /\ nn_closest = <<>>
    /\ nn_pc = "loop"
    /\ nn_result = {}

NNIdle ==
    /\ nn_particles = <<>>
    /\ nn_search = with_time_point_number(Particle(0, 0, 0), 1)
    /\ nn_amount = 1
    /\ nn_max_distance = 1
    /\ nn_i = 1
    /\ nn_closest = <<>>
    /\ nn_pc = "idle"
    /\ nn_result = {}

\* one iteration of "for particle in particles"
NNLoop ==
    /\ nn_pc = "loop"
    /\ nn_i <= Len(nn_particles)
    /\ nn_closest' = ClosestAfter(nn_closest, nn_particles, nn_search,
                                  nn_amount, nn_max_distance, nn_i)
    /\ nn_i' = nn_i + 1
    /\ UNCHANGED <<nn_particles, nn_search, nn_amount, nn_max_distance,
                   nn_pc, nn_result>>
    /\ UNCHANGED nn_others

\* the end of the loop: the set is built and returned
NNReturn ==
    /\ nn_pc = "loop"
    /\ nn_i > Len(nn_particles)
    /\ nn_result' = ReturnValue(nn_closest, nn_particles)
    /\ nn_pc' = "done"
    /\ UNCHANGED <<nn_particles, nn_search, nn_amount, nn_max_distance,
                   nn_i, nn_closest>>
    /\ UNCHANGED nn_others

NNNext == NNLoop \/ NNReturn

-----------------------------------------------------------------------------
(* Particle.__eq__ applied to two particles *)

EqCoordinates == {0, 1, Scale}
EqTimePoints == {None, Some(1), Some(2)}
EqParticles ==
    {[x |-> x, y |-> y, z |-> z, time_point_number |-> t] :
        x \in EqCoordinates, y \in EqCoordinates, z \in {0, 1}, t \in EqTimePoints}

EqIdle ==
    /\ eq_self = Particle(0, 0, 0)
    /\ eq_other = Particle(0, 0, 0)
    /\ eq_result = None

EqInit ==
    /\ eq_self \in EqParticles
    /\ eq_other \in EqParticles
    /\ eq_result = None

\* self == other
EqCompare ==
    /\ eq_result = None
    /\ eq_result' = Some(ParticleEq(eq_self, eq_other))
    /\ UNCHANGED <<eq_self, eq_other>>
    /\ UNCHANGED eq_others

EqNext == EqCompare

------------------------------------------------------------------------------
(* class TimePoint and class Experiment *)

\* TimePoint.__init__
TimePoint(time_point_number) ==
    [time_point_number |-> time_point_number, particles |-> <<>>,
     image_loader |-> FALSE]

\* TimePoint.add_particles appending the particle before it gives it the
\* time point number
RECURSIVE TimePointAddParticlesAppendsFirst(_, _)
TimePointAddParticlesAppendsFirst(time_point, particles) ==
    IF particles = <<>> THEN [time_point |-> time_point, raised |-> "none"]
    ELSE IF Head(particles).time_point_number # None
         THEN [time_point |-> [time_point EXCEPT !.particles = Append(@, Head(particles))],
               raised |-> "ValueError"]
         ELSE TimePointAddParticlesAppendsFirst(
                  [time_point EXCEPT !.particles =
                      Append(@, with_time_point_number(Head(particles),
                                                       time_point.time_point_number))],
                  Tail(particles))
\* TimePoint.add_particles: each particle gets the time point number and is
\* appended; a particle that already has a number raises ValueError, and
\* the particles appended before it stay.
RECURSIVE TimePointAddParticles(_, _)
TimePointAddParticles(time_point, particles) ==
    IF particles = <<>> THEN [time_point |-> time_point, raised |-> "none"]
    ELSE IF Head(particles).time_point_number # None
         THEN [time_point |-> time_point, raised |-> "ValueError"]
         ELSE TimePointAddParticles(
                  [time_point EXCEPT !.particles =
                      Append(@, with_time_point_number(Head(particles),
                                                       time_point.time_point_number))],
                  Tail(particles))

\* Experiment._update_time_point_statistics
UpdateFirst(first, new_time_point_number) ==
    IF first = None \/ first[1] > new_time_point_number
    THEN Some(new_time_point_number) ELSE first
UpdateLast(last, new_time_point_number) ==
    IF last = None \/ last[1] < new_time_point_number
    THEN Some(new_time_point_number) ELSE last

\* Experiment._get_or_add_time_point: the experiment after the call
GetOrAddTimePoint(time_points, first, last, t) ==
    IF t \in DOMAIN time_points
    THEN [time_points |-> time_points, first |-> first, last |-> last]
    ELSE [time_points |-> [n \in (DOMAIN time_points) \cup {t} |->
                              IF n = t THEN TimePoint(t) ELSE time_points[n]],
          first |-> UpdateFirst(first, t),
          last |-> UpdateLast(last, t)]

\* The number of particles stored in all time points
RECURSIVE StoredCount(_, _)
StoredCount(time_points, numbers) ==
    IF numbers = {} THEN 0
    ELSE LET n == CHOOSE m \in numbers : TRUE
         IN Len(time_points[n].particles) + StoredCount(time_points, numbers \ {n})

ExpCoordinates == {<<0, y, 0>> : y \in {0, 1}}
ExpRawLists == SeqsUpTo(ExpCoordinates, 2)
ExpTimes == 1..MaxTime

ExpIdle ==
    /\ exp_time_points = <<>>
    /\ exp_first = None
    /\ exp_last = None
    /\ exp_raised = "none"
    /\ exp_walk = [status |-> "none", yielded |-> <<>>]

\* Experiment.__init__
ExpInit == ExpIdle

ExpRoom == MaxParticles - StoredCount(exp_time_points, DOMAIN exp_time_points)

\* Experiment.add_particles(time_point_number, raw_particles)
ExpAddParticles ==
    \E t \in ExpTimes, raw_particles \in ExpRawLists :
        /\ Len(raw_particles) <= ExpRoom
        /\ LET particles == [i \in 1..Len(raw_particles) |->
                                Particle(raw_particles[i][1], raw_particles[i][2],
                                         raw_particles[i][3])]
               e == GetOrAddTimePoint(exp_time_points, exp_first, exp_last, t)
               r == TimePointAddParticles(e.time_points[t], particles)
           IN /\ exp_time_points' = [e.time_points EXCEPT ![t] = r.time_point]
              /\ exp_first' = e.first
              /\ exp_last' = e.last
              /\ exp_raised' = r.raised
        /\ UNCHANGED exp_walk
        /\ UNCHANGED exp_others

\* Experiment.add_particle(x, y, z, time_point_number)
ExpAddParticle ==
    \E t \in ExpTimes, c \in ExpCoordinates :
        /\ 1 <= ExpRoom
        /\ LET e == GetOrAddTimePoint(exp_time_points, exp_first, exp_last, t)
               r == TimePointAddParticles(e.time_points[t],
                                          <<Particle(c[1], c[2], c[3])>>)
           IN /\ exp_time_points' = [e.time_points EXCEPT ![t] = r.time_point]
              /\ exp_first' = e.first
              /\ exp_last' = e.last
              /\ exp_raised' = r.raised
        /\ UNCHANGED exp_walk
        /\ UNCHANGED exp_others

\* Experiment.add_image_loader(time_point_number, image_loader)
ExpAddImageLoader ==
    \E t \in ExpTimes :
        /\ LET e == GetOrAddTimePoint(exp_time_points, exp_first, exp_last, t)
           IN /\ exp_time_points' = [e.time_points EXCEPT ![t].image_loader = TRUE]
              /\ exp_first' = e.first
              /\ exp_last' = e.last
        /\ exp_raised' = "none"
        /\ UNCHANGED exp_walk
        /\ UNCHANGED exp_others

\* experiment.get_time_point(t).add_particles(particles), the particles being
\* new ones or particles that are stored in the experiment already
ExpStoredParticles ==
    UNION {{exp_time_points[n].particles[i] :
               i \in 1..Len(exp_time_points[n].particles)} :
           n \in DOMAIN exp_time_points}
ExpTimePointAddParticles ==
    \E t \in DOMAIN exp_time_points :
    \E particles \in SeqsUpTo({Particle(c[1], c[2], c[3]) : c \in ExpCoordinates}
                              \cup ExpStoredParticles, 2) :
        /\ Len(particles) >= 1
        /\ Len(particles) <= ExpRoom
        /\ LET r == TimePointAddParticles(exp_time_points[t], particles)
           IN /\ exp_time_points' = [exp_time_points EXCEPT ![t] = r.time_point]
              /\ exp_raised' = r.raised
        /\ UNCHANGED <<exp_first, exp_last, exp_walk>>
        /\ UNCHANGED exp_others

\* Experiment.time_points(), iterated to its end by the caller:
\* "while current_number <= last_number: yield get_time_point(current_number)"
RECURSIVE WalkFrom(_, _, _, _)
WalkFrom(time_points, current_number, last_number, yielded) ==
    IF current_number > last_number
    THEN [status |-> "completed", yielded |-> yielded]
    ELSE IF current_number \notin DOMAIN time_points
         THEN [status |-> "KeyError", yielded |-> yielded]
         ELSE WalkFrom(time_points, current_number + 1, last_number,
                       yielded \o time_points[current_number].particles)
WalkTimePoints(time_points, first, last) ==
    IF first = None \/ last = None
    THEN [status |-> "ValueError", yielded |-> <<>>]
    ELSE WalkFrom(time_points, first[1], last[1], <<>>)

ExpWalk ==
    /\ exp_walk' = WalkTimePoints(exp_time_points, exp_first, exp_last)
    /\ UNCHANGED <<exp_time_points, exp_first, exp_last, exp_raised>>
    /\ UNCHANGED exp_others

ExpNext ==
    \/ ExpAddParticles
    \/ ExpAddParticle
    \/ ExpAddImageLoader
    \/ ExpTimePointAddParticles
    \/ ExpWalk

-----------------------------------------------------------------------------
(* cluster_finder.find_clusters(positions, connections, time_point)        *)
(* The cluster finder is not part of the sources at hand; it is modelled   *)
(* as the specification describes it: a breadth-first traversal of the     *)
(* connections of one time point.                                          *)

\* Position(x, y, z, time_point_number=t)
Position(x, y, z, t) == [x |-> x, y |-> y, z |-> z, time_point_number |-> Some(t)]

\* The registered positions (a PositionCollection), in iteration order:
\* MaxClusterPositions at time point 1 and two at time point 2.
CfPositionList ==
    [i \in 1..MaxClusterPositions |-> Position(0, 0, i * Scale, 1)]
        \o <<Position(0, 0, 0, 2), Position(0, 0, Scale, 2)>>
CfPositions == {CfPositionList[i] : i \in 1..Len(CfPositionList)}

\* The connections that may exist: between positions of one time point that
\* are at most two steps apart in z.
CfPossibleConnections ==
    {{p, q} : p \in CfPositions, q \in CfPositions} \cap
    {c \in SUBSET CfPositions :
        /\ Cardinality(c) = 2
        /\ \A p \in c : \A q \in c :
              /\ p.time_point_number = q.time_point_number
              /\ Abs(p.z - q.z) <= 2 * Scale}

\* PositionCollection.of_time_point, in iteration order
RECURSIVE SelectSeq2(_, _)
SelectSeq2(list, keep) ==
    IF list = <<>> THEN <<>>
    ELSE IF Head(list) \in keep THEN <<Head(list)>> \o SelectSeq2(Tail(list), keep)
    ELSE SelectSeq2(Tail(list), keep)
OfTimePoint(t) ==
    SelectSeq2(CfPositionList, {p \in CfPositions : p.time_point_number = Some(t)})

\* Connections.find_connections(position)
FindConnections(connections, position) ==
    {q \in CfPositions : {position, q} \in connections}

\* the queue after its head was handled and new positions were found
QueueForgetsFound(queue, found) == Tail(queue)
QueueAfter(queue, found) == Tail(queue) \o SelectSeq2(CfPositionList, found)

CfIdle ==
    /\ cf_connections = {}
    /\ cf_time_point = 1
    /\ cf_todo = <<>>
    /\ cf_queue = <<>>
    /\ cf_cluster = {}
    /\ cf_clusters = <<>>
    /\ cf_pc = "idle"

CfInit ==
    /\ cf_connections \in SUBSET CfPossibleConnections
    /\ cf_time_point \in {1, 2}
    /\ cf_todo = OfTimePoint(cf_time_point)
    /\ cf_queue = <<>>
    /\ cf_cluster = {}
    /\ cf_clusters = <<>>
    /\ cf_pc = "scan"

CfVisited == UNION {cf_clusters[k] : k \in 1..Len(cf_clusters)}

\* the next position of the time point: skipped when it is in a cluster
\* already, else the start of a new cluster
CfScan ==
    /\ cf_pc = "scan"
    /\ cf_todo # <<>>
    /\ cf_todo' = Tail(cf_todo)
    /\ IF Head(cf_todo) \in CfVisited
       THEN UNCHANGED <<cf_queue, cf_cluster, cf_pc>>
       ELSE /\ cf_queue' = <<Head(cf_todo)>>
            /\ cf_cluster' = {Head(cf_todo)}
            /\ cf_pc' = "search"
    /\ UNCHANGED <<cf_connections, cf_time_point, cf_clusters>>
    /\ UNCHANGED cf_others

\* one step of the traversal: the connections of the head of the queue
CfSearch ==
    /\ cf_pc = "search"
    /\ cf_queue # <<>>
    /\ LET found == {q \in FindConnections(cf_connections, Head(cf_queue)) :
                        q.time_point_number = Some(cf_time_point)} \ cf_cluster
       IN /\ cf_cluster' = cf_cluster \cup found
          /\ cf_queue' = QueueAfter(cf_queue, found)
    /\ UNCHANGED <<cf_connections, cf_time_point, cf_todo, cf_clusters, cf_pc>>
    /\ UNCHANGED cf_others

\* the queue is empty: the cluster is complete
CfCluster ==
    /\ cf_pc = "search"
    /\ cf_queue = <<>>
    /\ cf_clusters' = Append(cf_clusters, cf_cluster)
    /\ cf_cluster' = {}
    /\ cf_pc' = "scan"
    /\ UNCHANGED <<cf_connections, cf_time_point, cf_todo, cf_queue>>
    /\ UNCHANGED cf_others

\* all positions were looked at: the clusters are returned
CfReturn ==
    /\ cf_pc = "scan"
    /\ cf_todo = <<>>
    /\ cf_pc' = "done"
    /\ UNCHANGED <<cf_connections, cf_time_point, cf_todo, cf_queue,
                   cf_cluster, cf_clusters>>
    /\ UNCHANGED cf_others

CfNext == CfScan \/ CfSearch \/ CfCluster \/ CfReturn

-----------------------------------------------------------------------------
(* autotrack.imaging.io: loading and saving JSON data files                *)
(*                                                                         *)
(* The Experiment of autotrack and its collections (particles, links,      *)
(* scores) are not part of the sources at hand.  They are modelled as the  *)
(* specification describes them: a set of positions, two optional link     *)
(* graphs and a set of scored families.                                    *)

\* load_data_file(file_name, min_time_point=0, max_time_point=5000)
DefaultMinTimePoint == 0
DefaultMaxTimePoint == 5000

\* The positions of the model
IoPositions ==
    {Position(0, 0, 0, -1), Position(0, 0, 0, 0),
     Position(0, 0, 0, 1), Position(0, Scale, 0, 1)}
IoTimePoints == {p.time_point_number[1] : p \in IoPositions}

\* a networkx graph
Graph(directed, nodes, edges) == [directed |-> directed, nodes |-> nodes, edges |-> edges]

\* The link graphs of the model: up to MaxIoLinks links, each from a
\* position to a position of the next time point
IoPossibleLinks ==
    {e \in IoPositions \X IoPositions :
        e[2].time_point_number[1] = e[1].time_point_number[1] + 1}
IoGraphs ==
    {Graph(FALSE, {e[1] : e \in edges} \cup {e[2] : e \in edges}, edges) :
        edges \in {g \in SUBSET IoPossibleLinks : Cardinality(g) <= MaxIoLinks}}

\* Family(mother, daughter1, daughter2): the daughters are a set
\* {a, b} as a Python set: two objects that are the same set element are
\* stored once (the first one stays)
PySet2(a, b) == IF SameSetElement(a, b) THEN {a} ELSE {a, b}
Family(mother, daughter1, daughter2) ==
    [mother |-> mother, daughters |-> PySet2(daughter1, daughter2)]
\* Score(**kwargs)
Score(kwargs) == [scores |-> kwargs]
ScoredFamily(family, score) == [family |-> family, score |-> score]

IoFamilies ==
    {Family(m, d1, d2) :
        m \in {q \in IoPositions : q.time_point_number = Some(0)},
        d1 \in {q \in IoPositions : q.time_point_number = Some(1)},
        d2 \in {q \in IoPositions : q.time_point_number = Some(1)}}
IoScoredFamilies == {ScoredFamily(f, Score([mother |-> 1])) : f \in IoFamilies}

\* Experiment()
NewExperiment == [particles |-> {}, scratch |-> None, baseline |-> None, scores |-> {}]

\* experiment.add_particle(particle), experiment.particles.add(particle, shape)
ExperimentAddParticles(experiment, particles) ==
    [experiment EXCEPT !.particles = @ \cup particles]
\* experiment.links.set_links(link_type, graph), and add_links on an
\* experiment without links of that type
ExperimentSetLinks(experiment, link_type, graph) ==
    IF link_type = "scratch" THEN [experiment EXCEPT !.scratch = Some(graph)]
    ELSE [experiment EXCEPT !.baseline = Some(graph)]
\* experiment.scores.add_scored_families(families)
ExperimentAddScoredFamilies(experiment, families) ==
    [experiment EXCEPT !.scores = @ \cup families]

\* ParticleCollection.first_time_point_number, last_time_point_number
SetMin(S) == CHOOSE a \in S : \A b \in S : a <= b
SetMax(S) == CHOOSE a \in S : \A b \in S : a >= b
ParticleTimePoints(particles) == {q.time_point_number[1] : q \in particles}

\* str(time_point_number) and int(key)
PyStr(n) == ToString(n)
PyIntOfStr(key) == CHOOSE n \in IoTimePoints : ToString(n) = key

\* _MyEncoder.default(Particle): the particle's __dict__
EncodeParticleSwapsXY(o) ==
    [x |-> o.y, y |-> o.x, z |-> o.z, _time_point_number |-> o.time_point_number[1]]
EncodeParticle(o) ==
    [x |-> o.x, y |-> o.y, z |-> o.z, _time_point_number |-> o.time_point_number[1]]
\* _my_decoder on an object with x, y and z
DecodeParticle(json_object) ==
    IF "_time_point_number" \in DOMAIN json_object
    THEN with_time_point_number(
             Particle(json_object.x, json_object.y, json_object.z),
             json_object._time_point_number)
    ELSE Particle(json_object.x, json_object.y, json_object.z)

\* _MyEncoder.default(ScoredFamily): daughters = list(o.family.daughters) is
\* in no fixed order, so either daughter can be written as daughter1
EncodeScoredFamily(o) ==
    {[scores |-> o.score.scores,
      mother |-> EncodeParticle(o.family.mother),
      daughter1 |-> EncodeParticle(d1),
      daughter2 |-> EncodeParticle(d2)] :
        d1 \in o.family.daughters, d2 \in o.family.daughters} \cap
    {e \in [scores : {o.score.scores},
            mother : {EncodeParticle(o.family.mother)},
            daughter1 : {EncodeParticle(d) : d \in o.family.daughters},
            daughter2 : {EncodeParticle(d) : d \in o.family.daughters}] :
        e.daughter1 # e.daughter2}
\* daughters[1] raises IndexError for a family with one daughter
EncodeScoredFamilyRaises(o) == Cardinality(o.family.daughters) < 2
\* the ways a collection of scored families can be written
EncodeScoredFamilies(families) ==
    {{choice[o] : o \in families} :
        choice \in {c \in [families -> UNION {EncodeScoredFamily(o) : o \in families}] :
                       \A o \in families : c[o] \in EncodeScoredFamily(o)}}

\* _my_decoder on an object with scores, mother and daughter1
DecodeScoredFamilyRaises(json_object) == "daughter2" \notin DOMAIN json_object
DecodeScoredFamily(json_object) ==
    ScoredFamily(Family(DecodeParticle(json_object.mother),
                        DecodeParticle(json_object.daughter1),
                        DecodeParticle(json_object.daughter2)),
                 Score(json_object.scores))

\* node_link_data(graph), written with _MyEncoder
EncodeNodeLinkData(graph) ==
    [directed |-> graph.directed,
     multigraph |-> FALSE,
     nodes |-> {[id |-> EncodeParticle(n)] : n \in graph.nodes},
     links |-> {[source |-> EncodeParticle(e[1]), target |-> EncodeParticle(e[2])] :
                   e \in graph.edges}]
\* node_link_graph(data), data read with _my_decoder: the nodes listed and
\* the end points of the links listed
NodeLinkGraph(data) ==
    Graph(data.directed,
          {DecodeParticle(n.id) : n \in data.nodes}
              \cup {DecodeParticle(l.source) : l \in data.links}
              \cup {DecodeParticle(l.target) : l \in data.links},
          {<<DecodeParticle(l.source), DecodeParticle(l.target)>> : l \in data.links})

\* _encode_positions_and_shapes: one key for every number from the first to
\* the last time point, the positions as [x, y, z]
EncodePositionsAndShapes(particles) ==
    [key \in {PyStr(n) : n \in SetMin(ParticleTimePoints(particles))
                                ..SetMax(ParticleTimePoints(particles))} |->
        {<<q.x, q.y, q.z>> : q \in {r \in particles : PyStr(r.time_point_number[1]) = key}}]
\* range(None, ...) raises TypeError when there are no positions
EncodePositionsAndShapesRaises(particles) == particles = {}

\* _parse_shape_format
ParseShapeFormat(experiment, json_structure, min_time_point, max_time_point) ==
    ExperimentAddParticles(experiment,
        UNION {{with_time_point_number(Particle(raw[1], raw[2], raw[3]), PyIntOfStr(key)) :
                   raw \in json_structure[key]} :
               key \in {k \in DOMAIN json_structure :
                           ~(PyIntOfStr(k) < min_time_point
                               \/ PyIntOfStr(k) > max_time_point)}})

\* the family_scores list of a document, decoded
DecodeScoredFamilies(list) == {DecodeScoredFamily(o) : o \in list}

\* _parse_links_format
ParseLinksFormat(experiment, data, link_type) ==
    LET scored == ExperimentAddScoredFamilies(experiment,
                      IF "family_scores" \in DOMAIN data
                      THEN DecodeScoredFamilies(data.family_scores) ELSE {})
        link_data == IF "directed" \in DOMAIN data THEN data ELSE data.links
        graph == NodeLinkGraph(link_data)
    IN ExperimentSetLinks(ExperimentAddParticles(scored, graph.nodes), link_type, graph)

\* json.load(handle, object_hook=_my_decoder) raises KeyError when an object
\* with scores, mother and daughter1 has no daughter2
JsonLoadRaises(data) ==
    /\ "family_scores" \in DOMAIN data
    /\ \E o \in data.family_scores : DecodeScoredFamilyRaises(o)

\* the sections of a version "v1" document, in the order they are read
LoadSections(experiment, data, min_time_point, max_time_point) ==
    LET e1 == IF "shapes" \in DOMAIN data
              THEN ParseShapeFormat(experiment, data.shapes, min_time_point, max_time_point)
              ELSE experiment
        e2 == IF "family_scores" \in DOMAIN data
              THEN ExperimentAddScoredFamilies(e1, DecodeScoredFamilies(data.family_scores))
              ELSE e1
        e3 == IF "links_scratch" \in DOMAIN data
              THEN ExperimentSetLinks(
                       ExperimentAddParticles(e2, NodeLinkGraph(data.links_scratch).nodes),
                       "scratch", NodeLinkGraph(data.links_scratch))
              ELSE e2
        e4 == IF "links_baseline" \in DOMAIN data
              THEN ExperimentSetLinks(
                       ExperimentAddParticles(e3, NodeLinkGraph(data.links_baseline).nodes),
                       "baseline", NodeLinkGraph(data.links_baseline))
              ELSE e3
    IN e4

Raised(exception) == [status |-> exception, experiment |-> None, graph |-> None]
ReturnedExperiment(experiment) ==
    [status |-> "returned", experiment |-> Some(experiment), graph |-> None]
ReturnedGraph(graph) ==
    [status |-> "returned", experiment |-> None, graph |-> Some(graph)]

\* _load_json_data_file (load_data_file of a .aut or .json file)
LoadJsonDataFile(file, min_time_point, max_time_point) ==
    IF file.state = "partial" THEN Raised("ValueError")   \* json.JSONDecodeError
    ELSE IF JsonLoadRaises(file.data) THEN Raised("KeyError")
    ELSE IF "version" \notin DOMAIN file.data
         THEN IF "directed" \in DOMAIN file.data \/ "links" \in DOMAIN file.data
              THEN ReturnedExperiment(ParseLinksFormat(NewExperiment, file.data, "baseline"))
              ELSE ReturnedExperiment(ParseShapeFormat(NewExperiment, file.data,
                                                       min_time_point, max_time_point))
    ELSE IF file.data.version # "v1" THEN Raised("ValueError")
    ELSE ReturnedExperiment(LoadSections(NewExperiment, file.data,
                                         min_time_point, max_time_point))

\* load_links_from_json
LoadLinksFromJson(file, min_time_point, max_time_point) ==
    IF file.state = "partial" THEN Raised("ValueError")   \* json.JSONDecodeError
    ELSE IF JsonLoadRaises(file.data) THEN Raised("KeyError")
    ELSE IF "directed" \notin DOMAIN file.data /\ "links" \notin DOMAIN file.data
         THEN Raised("KeyError")
    ELSE LET data == IF "directed" \notin DOMAIN file.data THEN file.data.links
                     ELSE file.data
             nodes == {entry \in data.nodes :
                          /\ min_time_point <= DecodeParticle(entry.id).time_point_number[1]
                          /\ DecodeParticle(entry.id).time_point_number[1] <= max_time_point}
             links == {entry \in data.links :
                          /\ min_time_point <= DecodeParticle(entry.source).time_point_number[1]
                          /\ DecodeParticle(entry.source).time_point_number[1] <= max_time_point
                          /\ min_time_point <= DecodeParticle(entry.target).time_point_number[1]
                          /\ DecodeParticle(entry.target).time_point_number[1] <= max_time_point}
         IN ReturnedGraph(NodeLinkGraph([data EXCEPT !.nodes = nodes, !.links = links]))

\* The time point ranges given to the loaders
IoRanges ==
    {<<DefaultMinTimePoint, DefaultMaxTimePoint>>,
     <<-1, DefaultMaxTimePoint>>,
     <<DefaultMinTimePoint, DefaultMinTimePoint>>}

NoFile == [state |-> "absent", data |-> <<>>]
Written(data) == [state |-> "written", data |-> data]
\* open(json_file_name, 'w') succeeded and json.dump raised
PartlyWritten == [state |-> "partial", data |-> <<>>]
NotLoaded ==
    [call |-> "none", min_time_point |-> 0, max_time_point |-> 0,
     result |-> Raised("none")]

IoIdle ==
    /\ io_experiment = NewExperiment
    /\ io_file = NoFile
    /\ io_saved = "none"
    /\ io_loaded = NotLoaded

IoInit == IoIdle

\* experiment.add_particle(particle)
IoAddParticle ==
    \E particle \in IoPositions :
        /\ io_file = NoFile /\ io_saved = "none"
        /\ Cardinality(io_experiment.particles) < MaxIoParticles
        /\ io_experiment' = ExperimentAddParticles(io_experiment, {particle})
        /\ UNCHANGED <<io_file, io_saved, io_loaded>>
        /\ UNCHANGED io_others

\* experiment.links.set_links(link_type, graph)
IoSetLinks ==
    \E link_type \in {"scratch", "baseline"}, graph \in IoGraphs :
        /\ io_file = NoFile /\ io_saved = "none"
        /\ io_experiment' = ExperimentSetLinks(io_experiment, link_type, graph)
        /\ UNCHANGED <<io_file, io_saved, io_loaded>>
        /\ UNCHANGED io_others

\* experiment.scores.add_scored_families([scored_family])
IoAddScoredFamily ==
    \E scored_family \in IoScoredFamilies :
        /\ io_file = NoFile /\ io_saved = "none"
        /\ Cardinality(io_experiment.scores) < MaxIoFamilies
        /\ io_experiment' = ExperimentAddScoredFamilies(io_experiment, {scored_family})
        /\ UNCHANGED <<io_file, io_saved, io_loaded>>
        /\ UNCHANGED io_others

\* the keys of the document save_data_to_json writes
SaveData(experiment, family_scores) ==
    ("version" :> "v1")
    @@ ("shapes" :> EncodePositionsAndShapes(experiment.particles))
    @@ (IF experiment.scratch # None
        THEN ("links_scratch" :> EncodeNodeLinkData(experiment.scratch[1])) ELSE <<>>)
    @@ (IF experiment.baseline # None
        THEN ("links_baseline" :> EncodeNodeLinkData(experiment.baseline[1])) ELSE <<>>)
    @@ (IF Cardinality(experiment.scores) > 0
        THEN ("family_scores" :> family_scores) ELSE <<>>)

\* save_data_to_json(experiment, json_file_name)
IoSaveDataToJson ==
    /\ io_file = NoFile /\ io_saved = "none"
    /\ IF EncodePositionsAndShapesRaises(io_experiment.particles)
       THEN io_saved' = "TypeError" /\ io_file' = NoFile
       ELSE IF \E o \in io_experiment.scores : EncodeScoredFamilyRaises(o)
       THEN io_saved' = "IndexError" /\ io_file' = PartlyWritten
       ELSE \E family_scores \in EncodeScoredFamilies(io_experiment.scores) :
               /\ io_saved' = "save_data_to_json"
               /\ io_file' = Written(SaveData(io_experiment, family_scores))
    /\ UNCHANGED <<io_experiment, io_loaded>>
    /\ UNCHANGED io_others

\* save_links_to_json(links, json_file_name), links being the scratch or the
\* baseline links of the experiment
IoSaveLinksToJson ==
    \E links \in {io_experiment.scratch, io_experiment.baseline} \ {None} :
        /\ io_file = NoFile /\ io_saved = "none"
        /\ io_saved' = "save_links_to_json"
        /\ io_file' = Written(EncodeNodeLinkData(links[1]))
        /\ UNCHANGED <<io_experiment, io_loaded>>
        /\ UNCHANGED io_others

\* save_positions_and_shapes_to_json(experiment, json_file_name)
IoSavePositionsAndShapesToJson ==
    /\ io_file = NoFile /\ io_saved = "none"
    /\ IF EncodePositionsAndShapesRaises(io_experiment.particles)
       THEN io_saved' = "TypeError" /\ io_file' = NoFile
       ELSE /\ io_saved' = "save_positions_and_shapes_to_json"
            /\ io_file' = Written(EncodePositionsAndShapes(io_experiment.particles))
    /\ UNCHANGED <<io_experiment, io_loaded>>
    /\ UNCHANGED io_others

\* save_links_and_scores_to_json(links, scores, json_file_name)
IoSaveLinksAndScoresToJson ==
    \E links \in {io_experiment.scratch, io_experiment.baseline} \ {None} :
        /\ io_file = NoFile /\ io_saved = "none"
        /\ IF \E o \in io_experiment.scores : EncodeScoredFamilyRaises(o)
           THEN io_saved' = "IndexError" /\ io_file' = PartlyWritten
           ELSE \E family_scores \in EncodeScoredFamilies(io_experiment.scores) :
                   /\ io_saved' = "save_links_and_scores_to_json"
                   /\ io_file' = Written([links |-> EncodeNodeLinkData(links[1]),
                                          family_scores |-> family_scores])
        /\ UNCHANGED <<io_experiment, io_loaded>>
        /\ UNCHANGED io_others

\* A data file of another version of the program: the "v1" document under
\* another version string, its scored families written with or without a
\* daughter2 key
IoOtherVersionFile ==
    \E keep_daughter2 \in BOOLEAN :
        /\ io_file.state = "written"
        /\ io_saved = "save_data_to_json"
        /\ io_loaded = NotLoaded
        /\ io_saved' = "other version"
        /\ io_file' = Written(
              [key \in DOMAIN io_file.data |->
                  IF key = "version" THEN "v2"
                  ELSE IF key = "family_scores" /\ ~keep_daughter2
                       THEN {[scores |-> o.scores, mother |-> o.mother,
                              daughter1 |-> o.daughter1] : o \in io_file.data[key]}
                       ELSE io_file.data[key]])
        /\ UNCHANGED <<io_experiment, io_loaded>>
        /\ UNCHANGED io_others

\* load_data_file(file_name, min_time_point, max_time_point)
IoLoadDataFile ==
    \E range \in IoRanges :
        /\ io_file # NoFile
        /\ io_loaded = NotLoaded
        /\ io_loaded' = [call |-> "load_data_file",
                         min_time_point |-> range[1], max_time_point |-> range[2],
                         result |-> LoadJsonDataFile(io_file, range[1], range[2])]
        /\ UNCHANGED <<io_experiment, io_file, io_saved>>
        /\ UNCHANGED io_others

\* load_links_from_json(json_file_name, min_time_point, max_time_point)
IoLoadLinksFromJson ==
    \E range \in IoRanges :
        /\ io_file # NoFile
        /\ io_loaded = NotLoaded
        /\ io_loaded' = [call |-> "load_links_from_json",
                         min_time_point |-> range[1], max_time_point |-> range[2],
                         result |-> LoadLinksFromJson(io_file, range[1], range[2])]
        /\ UNCHANGED <<io_experiment, io_file, io_saved>>
        /\ UNCHANGED io_others

IoNext ==
    \/ IoAddParticle
    \/ IoSetLinks
    \/ IoAddScoredFamily
    \/ IoSaveDataToJson
    \/ IoSaveLinksToJson
    \/ IoSavePositionsAndShapesToJson
    \/ IoSaveLinksAndScoresToJson
    \/ IoOtherVersionFile
    \/ IoLoadDataFile
    \/ IoLoadLinksFromJson

-----------------------------------------------------------------------------
(* save_dataframe_to_csv *)

CsvFileNames == {"out/a.csv", "out/b.csv"}
AltName(csv_file_name) == csv_file_name \o ".ALT"
CsvPaths == CsvFileNames \cup {AltName(n) : n \in CsvFileNames}
CsvFrames == 1..MaxFrames

\* what DataFrame.to_csv(path) does: it writes the file, or raises
\* PermissionError (the path is not writable) or another OSError
CsvAccess == {"writable", "denied", "failing"}
ToCsvError(access, path) ==
    IF access[path] = "denied" THEN Some([type |-> "PermissionError", filename |-> path])
    ELSE IF access[path] = "failing" THEN Some([type |-> "OSError", filename |-> path])
    ELSE None
ToCsvContent(access, content, path, data_frame) ==
    IF access[path] = "writable" THEN [content EXCEPT ![path] = Some(data_frame)]
    ELSE content

\* save_dataframe_to_csv(data_frame, csv_file_name): what was attempted,
\* what is on disk afterwards and what is raised
SaveDataframeToCsv(access, content, data_frame, csv_file_name) ==
    LET first == ToCsvError(access, csv_file_name)
        after_first == ToCsvContent(access, content, csv_file_name, data_frame)
    IN IF first # None /\ first[1].type = "PermissionError"
       THEN LET second == ToCsvError(access, AltName(csv_file_name))
            IN [attempts |-> <<csv_file_name, AltName(csv_file_name)>>,
                content |-> ToCsvContent(access, after_first,
                                         AltName(csv_file_name), data_frame),
                first_error |-> first,
                \* "raise e" is reached only when the second write returned
                raised |-> IF second # None THEN second ELSE first]
       ELSE [attempts |-> <<csv_file_name>>,
             content |-> after_first,
             first_error |-> first,
             raised |-> first]

CsvNoCall ==
    [csv_file_name |-> "", attempts |-> <<>>, first_error |-> None, raised |-> None,
     directory_before_write |-> FALSE]

CsvIdle ==
    /\ csv_directory = FALSE
    /\ csv_access = [path \in CsvPaths |-> "writable"]
    /\ csv_content = [path \in CsvPaths |-> None]
    /\ csv_call = CsvNoCall

CsvInit == CsvIdle

\* the environment: the access to a path changes
CsvChangeAccess ==
    \E path \in CsvPaths, access \in CsvAccess :
        /\ csv_access[path] # access
        /\ csv_access' = [csv_access EXCEPT ![path] = access]
        /\ UNCHANGED <<csv_directory, csv_content, csv_call>>
        /\ UNCHANGED csv_others

\* save_dataframe_to_csv(data_frame, csv_file_name); first
\* _create_parent_directories: Path.mkdir(parents=True, exist_ok=True)
CsvSave ==
    \E data_frame \in CsvFrames, csv_file_name \in CsvFileNames :
        LET r == SaveDataframeToCsv(csv_access, csv_content, data_frame, csv_file_name)
        IN /\ csv_directory' = TRUE
           /\ csv_content' = r.content
           /\ csv_call' = [csv_file_name |-> csv_file_name,
                           attempts |-> r.attempts,
                           first_error |-> r.first_error,
                           raised |-> r.raised,
                           directory_before_write |-> TRUE]
           /\ UNCHANGED csv_access
           /\ UNCHANGED csv_others

CsvNext == CsvChangeAccess \/ CsvSave

-----------------------------------------------------------------------------
(* The save functions, step by step on the file system *)

SaveFunctions ==
    {"save_links_to_json", "save_positions_and_shapes_to_json",
     "save_links_and_scores_to_json", "save_dataframe_to_csv", "save_data_to_json"}

\* the statements of each function, in the order of its body
SaveProgram(function) ==
    CASE function = "save_links_to_json" ->
            <<"node_link_data", "mkdir", "open", "dump">>
      [] function = "save_positions_and_shapes_to_json" ->
            <<"encode", "mkdir", "open", "dump">>
      [] function = "save_links_and_scores_to_json" ->
            <<"node_link_data", "families", "mkdir", "open", "dump">>
      [] function = "save_dataframe_to_csv" ->
            <<"mkdir", "to_csv", "to_csv_alt", "raise">>
      [] function = "save_data_to_json" ->
            <<"encode", "node_link_data", "families", "mkdir", "open", "dump">>

\* Path(file_name).parent.mkdir(parents=True, exist_ok=True): the directories
\* that exist afterwards, the parent of the target being at depth depth
MkdirWithoutParents(dirs, depth) == IF dirs + 1 = depth THEN depth ELSE dirs
CreateParentDirectories(dirs, depth) == Max2(dirs, depth)

\* open(file_name, 'w') and DataFrame.to_csv(file_name) need the directory
OpenError(dirs, depth) == IF dirs >= depth THEN None ELSE Some("FileNotFoundError")

SvStatement == SaveProgram(sv_function)[sv_pc]

SvIdle ==
    /\ sv_function = "none"
    /\ sv_pc = 0
    /\ sv_depth = 0
    /\ sv_dirs = 0
    /\ sv_raises = "nothing"
    /\ sv_log = <<>>

SvInit == SvIdle

\* a save function is called; what will go wrong in it is an input: the
\* experiment holds no positions (_encode_positions_and_shapes raises), or
\* the target may not be written (to_csv raises PermissionError)
SvCall ==
    \E function \in SaveFunctions, depth \in 0..MaxDepth,
       raises \in {"nothing", "encode", "permission"} :
        /\ sv_pc = 0
        /\ sv_function' = function
        /\ sv_pc' = 1
        /\ sv_depth' = depth
        /\ sv_raises' = raises
        /\ sv_log' = <<>>
        /\ UNCHANGED sv_dirs
        /\ UNCHANGED sv_others

\* node_link_data, list(all_scored_families()) and
\* _encode_positions_and_shapes: no file system call
SvCompute ==
    /\ sv_pc > 0
    /\ SvStatement \in {"node_link_data", "families", "encode"}
    /\ sv_pc' = IF SvStatement = "encode" /\ sv_raises = "encode" THEN 0 ELSE sv_pc + 1
    /\ UNCHANGED <<sv_function, sv_depth, sv_dirs, sv_raises, sv_log>>
    /\ UNCHANGED sv_others

\* _create_parent_directories(file_name)
SvCreateParentDirectories ==
    /\ sv_pc > 0
    /\ SvStatement = "mkdir"
    /\ sv_dirs' = CreateParentDirectories(sv_dirs, sv_depth)
    /\ sv_log' = Append(sv_log, [call |-> "mkdir", existed |-> sv_dirs >= sv_depth,
                                 error |-> None])
    /\ sv_pc' = sv_pc + 1
    /\ UNCHANGED <<sv_function, sv_depth, sv_raises>>
    /\ UNCHANGED sv_others

\* open(json_file_name, 'w'), data_frame.to_csv(csv_file_name) and
\* data_frame.to_csv(csv_file_name + ".ALT")
SvOpen ==
    /\ sv_pc > 0
    /\ SvStatement \in {"open", "to_csv", "to_csv_alt"}
    /\ LET error == IF OpenError(sv_dirs, sv_depth) # None THEN OpenError(sv_dirs, sv_depth)
                    ELSE IF SvStatement = "to_csv" /\ sv_raises = "permission"
                         THEN Some("PermissionError")
                    ELSE None
       IN /\ sv_log' = Append(sv_log, [call |-> SvStatement, existed |-> sv_dirs >= sv_depth,
                                       error |-> error])
          /\ sv_pc' = IF SvStatement = "to_csv"
                      THEN (IF error = Some("PermissionError") THEN sv_pc + 1 ELSE 0)
                      ELSE IF error # None THEN 0
                      ELSE sv_pc + 1
    /\ UNCHANGED <<sv_function, sv_depth, sv_dirs, sv_raises>>
    /\ UNCHANGED sv_others

\* json.dump(data, handle) and the end of the with block; raise e
SvFinish ==
    /\ sv_pc > 0
    /\ SvStatement \in {"dump", "raise"}
    /\ sv_pc' = 0
    /\ UNCHANGED <<sv_function, sv_depth, sv_dirs, sv_raises, sv_log>>
    /\ UNCHANGED sv_others

\* between two calls, directories are removed by the user
SvRemoveDirectories ==
    \E dirs \in 0..MaxDepth :
        /\ sv_pc = 0
        /\ dirs < sv_dirs
        /\ sv_dirs' = dirs
        /\ UNCHANGED <<sv_function, sv_pc, sv_depth, sv_raises, sv_log>>
        /\ UNCHANGED sv_others

SvNext ==
    \/ SvCall
    \/ SvCompute
    \/ SvCreateParentDirectories
    \/ SvOpen
    \/ SvFinish
    \/ SvRemoveDirectories

-----------------------------------------------------------------------------
(* Path (autotrack/core/path.py) *)

\* Coordinates and lengths are integers in units of 1/PathUnit pixel, the
\* distance between two samples of the spline (numpy.arange(0, 1.01, 0.05))
\* being 1/20 of the path
PathUnit == 20
SampleCount == 21

\* A float keeps FloatBits significant bits: the sums and differences of
\* path positions are rounded to the nearest float, ties to even
FloatLimit == 2 ^ FloatBits

\* the distance between two floats next to each other, at a magnitude
RECURSIVE FloatStep(_, _)
FloatStep(magnitude, step) ==
    IF magnitude < FloatLimit * step THEN step ELSE FloatStep(magnitude, 2 * step)

FloatRound(v) ==
    LET step == FloatStep(Abs(v), 1)
        q == Abs(v) \div step
        r == Abs(v) % step
        up == 2 * r > step \/ (2 * r = step /\ q % 2 = 1)
        rounded == (IF up THEN q + 1 ELSE q) * step
    IN IF v < 0 THEN -rounded ELSE rounded

FloatAdd(a, b) == FloatRound(a + b)
FloatSub(a, b) == FloatRound(a - b)

\* numpy.sqrt, math.sqrt (exact on the squares of the grid)
RECURSIVE SqrtBetween(_, _, _)
SqrtBetween(n, low, high) ==
    IF low = high THEN low
    ELSE LET middle == (low + high + 1) \div 2
         IN IF middle * middle <= n THEN SqrtBetween(n, middle, high)
            ELSE SqrtBetween(n, low, middle - 1)
SqrtLimit == PathUnit * (2 * MaxPathX + 4)
Sqrt(n) == SqrtBetween(n, 0, Min2(n, SqrtLimit))

\* _distance_squared(vx, vy, wx, wy)
PathDistanceSquared(vx, vy, wx, wy) == (vx - wx) * (vx - wx) + (vy - wy) * (vy - wy)

\* _distance(x1, y1, x2, y2)
PathDistance(x1, y1, x2, y2) == Sqrt((x1 - x2) * (x1 - x2) + (y1 - y2) * (y1 - y2))

\* _distance_to_line_segment_squared: t = dot / l2 clamped to 0..1
DistanceToLineSegmentSquared(line_x1, line_y1, line_x2, line_y2, point_x, point_y) ==
    LET l2 == PathDistanceSquared(line_x1, line_y1, line_x2, line_y2)
        dot == (point_x - line_x1) * (line_x2 - line_x1)
               + (point_y - line_y1) * (line_y2 - line_y1)
    IN IF l2 = 0 THEN PathDistanceSquared(point_x, point_y, line_x1, line_y1)
       ELSE IF dot <= 0 THEN PathDistanceSquared(point_x, point_y, line_x1, line_y1)
       ELSE IF dot >= l2 THEN PathDistanceSquared(point_x, point_y, line_x2, line_y2)
       ELSE (PathDistanceSquared(point_x, point_y, line_x1, line_y1) * l2 - dot * dot) \div l2

\* Path._interpolation: None, the lists _x_list and _y_list themselves
\* (returned as they are for a path of at most one point), or new lists
TheLists == Some([lists |-> TRUE, x_values |-> <<>>, y_values |-> <<>>])
NewLists(x_values, y_values) ==
    Some([lists |-> FALSE, x_values |-> x_values, y_values |-> y_values])

\* _calculate_interpolation: for points on a straight line, in order, the
\* spline of splprep is that line, sampled by splev at 0, 0.05, ..., 1
CalculateInterpolation(x_list, y_list) ==
    IF Len(x_list) <= 1 THEN TheLists
    ELSE LET n == Len(x_list)
         IN NewLists(
              [k \in 1..SampleCount |->
                  x_list[1] + ((x_list[n] - x_list[1]) * (k - 1)) \div (SampleCount - 1)],
              [k \in 1..SampleCount |->
                  y_list[1] + ((y_list[n] - y_list[1]) * (k - 1)) \div (SampleCount - 1)])

\* get_interpolation_2d: the cache after the call
CachedInterpolation(interpolation, x_list, y_list) ==
    IF interpolation = None THEN CalculateInterpolation(x_list, y_list) ELSE interpolation

\* the x and y values that a cached interpolation holds
InterpolationValues(interpolation, x_list, y_list) ==
    IF interpolation[1].lists THEN <<x_list, y_list>>
    ELSE <<interpolation[1].x_values, interpolation[1].y_values>>

\* get_interpolation_2d: the value returned
GetInterpolation2d(interpolation, x_list, y_list) ==
    InterpolationValues(CachedInterpolation(interpolation, x_list, y_list), x_list, y_list)

\* self._interpolation = None in add_point and remove_point
StaleInterpolation(interpolation) == interpolation
InvalidatedInterpolation(interpolation) == None

\* get_path_position_2d, first loop: the squared distance to line i, from
\* point i to point i + 1 of the interpolation
LineDistanceSquared(x_values, y_values, i, particle) ==
    DistanceToLineSegmentSquared(x_values[i], y_values[i], x_values[i + 1], y_values[i + 1],
                                 particle.x, particle.y)

\* the loop over the lines: the closest line so far is replaced by line i
\* when that one is strictly closer
RECURSIVE ClosestLineFrom(_, _, _, _, _)
ClosestLineFrom(x_values, y_values, particle, i, closest) ==
    IF i >= Len(x_values) THEN closest
    ELSE LET distance_squared_i == LineDistanceSquared(x_values, y_values, i, particle)
         IN ClosestLineFrom(x_values, y_values, particle, i + 1,
               IF closest = None \/ distance_squared_i < closest[1].distance_squared
               THEN Some([index |-> i, distance_squared |-> distance_squared_i])
               ELSE closest)

\* closest_line_index and min_distance_to_line_squared
ClosestLine(x_values, y_values, particle) ==
    ClosestLineFrom(x_values, y_values, particle, 1, None)[1]

\* second loop: combined_length_of_previous_lines
RECURSIVE CombinedLength(_, _, _)
CombinedLength(x_values, y_values, lines) ==
    IF lines = 0 THEN 0
    ELSE FloatAdd(CombinedLength(x_values, y_values, lines - 1),
                  PathDistance(x_values[lines + 1], y_values[lines + 1],
                               x_values[lines], y_values[lines]))

\* raw_path_position of get_path_position_2d
RawPathPosition(x_values, y_values, closest, particle) ==
    LET distance_to_start_of_line_squared ==
            PathDistanceSquared(x_values[closest.index], y_values[closest.index],
                                particle.x, particle.y)
        distance_on_line ==
            Sqrt(distance_to_start_of_line_squared - closest.distance_squared)
    IN FloatAdd(CombinedLength(x_values, y_values, closest.index - 1), distance_on_line)

\* Path.get_path_position_2d(particle), given the interpolation
GetPathPosition2d(x_values, y_values, offset, particle) ==
    IF Len(x_values) < 2 THEN None
    ELSE LET closest == ClosestLine(x_values, y_values, particle)
         IN Some([pos |-> FloatSub(RawPathPosition(x_values, y_values, closest, particle),
                                   offset),
                  distance |-> Sqrt(closest.distance_squared)])

\* path_position_to_xy: the while loop, from line line_index on
RECURSIVE WalkLines(_, _, _, _)
WalkLines(x_values, y_values, raw_path_position, line_index) ==
    LET line_length == PathDistance(x_values[line_index], y_values[line_index],
                                    x_values[line_index + 1], y_values[line_index + 1])
        line_dx == x_values[line_index + 1] - x_values[line_index]
        line_dy == y_values[line_index + 1] - y_values[line_index]
    IN IF raw_path_position < line_length
       THEN Some(<<x_values[line_index] + (line_dx * raw_path_position) \div line_length,
                   y_values[line_index] + (line_dy * raw_path_position) \div line_length>>)
       ELSE IF line_index + 1 >= Len(x_values) THEN None
       ELSE WalkLines(x_values, y_values, FloatSub(raw_path_position, line_length),
                      line_index + 1)

\* path_position_to_xy without its test for a negative position
PathPositionToXyUnchecked(x_list, y_list, interpolation, offset, path_position) ==
    IF Len(x_list) < 2 THEN None
    ELSE LET values == GetInterpolation2d(interpolation, x_list, y_list)
         IN WalkLines(values[1], values[2], FloatAdd(path_position, offset), 1)
\* Path.path_position_to_xy(path_position)
PathPositionToXy(x_list, y_list, interpolation, offset, path_position) ==
    IF Len(x_list) < 2 THEN None
    ELSE IF FloatAdd(path_position, offset) < 0 THEN None
    ELSE LET values == GetInterpolation2d(interpolation, x_list, y_list)
         IN WalkLines(values[1], values[2], FloatAdd(path_position, offset), 1)

\* Path.update_offset_for_particles(particles): the offset after the call
UpdateOffsetForParticles(x_list, y_list, interpolation, offset, particles) ==
    IF Len(x_list) < 2 THEN offset
    ELSE IF particles = {} THEN offset
    ELSE LET values == GetInterpolation2d(interpolation, x_list, y_list)
             positions == {GetPathPosition2d(values[1], values[2], offset, particle)[1].pos :
                              particle \in particles}
         IN FloatAdd(offset, SetMin(positions))

\* the points of a path are put on a straight line, from left to right
PathXs == {PathUnit * k : k \in 0..MaxPathX}
PathYs == {0}
\* where remove_point is asked to remove: on a point, and just less than
\* one pixel from it
PathClicks ==
    {<<PathUnit * k + d, y>> : k \in 0..MaxPathX, d \in {0, 1 - PathUnit}, y \in PathYs}
\* the positions that are measured along the path: on it, next to it and
\* beyond its end
PathParticles ==
    {[x |-> x, y |-> 0] :
        x \in {1, PathUnit + 3, PathUnit * (MaxPathX + 2)}}
PathParticleSets == {S \in SUBSET PathParticles : Cardinality(S) <= MaxPathParticles}
PathPositions ==
    {-1, 0, 1} \cup {PathUnit * k + d : k \in 1..MaxPathX, d \in {-1, 0}}

PathNoCall == [op |-> "none"]

PathIdle ==
    /\ pt_x_list = <<>>
    /\ pt_y_list = <<>>
    /\ pt_z = None
    /\ pt_interpolation = None
    /\ pt_offset = 0
    /\ pt_call = PathNoCall

PathInit == PathIdle

\* path.add_point(x, y, z)
PathAddPoint ==
    \E x \in PathXs, y \in PathYs :
        /\ pt_x_list # <<>> => (x > pt_x_list[Len(pt_x_list)] /\ y = pt_y_list[1])
        /\ pt_z' = IF pt_z = None THEN Some(0) ELSE pt_z
        /\ pt_x_list' = Append(pt_x_list, x)
        /\ pt_y_list' = Append(pt_y_list, y)
        /\ pt_interpolation' = InvalidatedInterpolation(pt_interpolation)
        /\ pt_call' = [op |-> "add_point", cached |-> pt_interpolation # None]
        /\ UNCHANGED pt_offset
        /\ UNCHANGED pt_others

\* path.remove_point(x, y): the first point less than one pixel away
PathRemovePoint ==
    \E click \in PathClicks :
        LET matches == {i \in 1..Len(pt_x_list) :
                           /\ Abs(pt_x_list[i] - click[1]) < PathUnit
                           /\ Abs(pt_y_list[i] - click[2]) < PathUnit}
            first == SetMin(matches)
            without(list) == SubSeq(list, 1, first - 1) \o SubSeq(list, first + 1, Len(list))
        IN /\ IF matches = {}
              THEN UNCHANGED <<pt_x_list, pt_y_list, pt_interpolation>>
              ELSE /\ pt_x_list' = without(pt_x_list)
                   /\ pt_y_list' = without(pt_y_list)
                   /\ pt_interpolation' = InvalidatedInterpolation(pt_interpolation)
           /\ pt_call' = [op |-> "remove_point", cached |-> pt_interpolation # None,
                          matched |-> matches # {}]
           /\ UNCHANGED <<pt_z, pt_offset>>
           /\ UNCHANGED pt_others

\* path.get_interpolation_2d()
PathGetInterpolation ==
    /\ pt_interpolation' = CachedInterpolation(pt_interpolation, pt_x_list, pt_y_list)
    /\ pt_call' = [op |-> "get_interpolation_2d",
                   result |-> GetInterpolation2d(pt_interpolation, pt_x_list, pt_y_list)]
    /\ UNCHANGED <<pt_x_list, pt_y_list, pt_z, pt_offset>>
    /\ UNCHANGED pt_others

\* path.update_offset_for_particles(particles); get_path_position_2d is
\* called for every particle and fills the cache
PathUpdateOffset ==
    \E particles \in PathParticleSets :
        /\ pt_offset' = UpdateOffsetForParticles(pt_x_list, pt_y_list, pt_interpolation,
                                                 pt_offset, particles)
        /\ pt_interpolation' =
              IF Len(pt_x_list) < 2 \/ particles = {} THEN pt_interpolation
              ELSE CachedInterpolation(pt_interpolation, pt_x_list, pt_y_list)
        /\ pt_call' = [op |-> "update_offset_for_particles", particles |-> particles,
                       changed |-> pt_offset' # pt_offset,
                       again |-> /\ pt_call.op = "update_offset_for_particles"
                                 /\ pt_call.particles = particles]
        /\ UNCHANGED <<pt_x_list, pt_y_list, pt_z>>
        /\ UNCHANGED pt_others

\* path.path_position_to_xy(path_position)
PathPositionToXyCall ==
    \E path_position \in PathPositions :
        /\ pt_interpolation' =
              IF Len(pt_x_list) < 2 \/ FloatAdd(path_position, pt_offset) < 0
              THEN pt_interpolation
              ELSE CachedInterpolation(pt_interpolation, pt_x_list, pt_y_list)
        /\ pt_call' = [op |-> "path_position_to_xy", path_position |-> path_position,
                       result |-> PathPositionToXy(pt_x_list, pt_y_list, pt_interpolation,
                                                   pt_offset, path_position)]
        /\ UNCHANGED <<pt_x_list, pt_y_list, pt_z, pt_offset>>
        /\ UNCHANGED pt_others

\* path.get_path_position_2d(particle); get_interpolation_2d is called first
\* and fills the cache
PathGetPathPosition2d ==
    \E particle \in PathParticles :
        LET values == GetInterpolation2d(pt_interpolation, pt_x_list, pt_y_list)
        IN /\ pt_interpolation' = CachedInterpolation(pt_interpolation, pt_x_list, pt_y_list)
           /\ pt_call' = [op |-> "get_path_position_2d", particle |-> particle,
                          result |-> GetPathPosition2d(values[1], values[2], pt_offset,
                                                       particle)]
           /\ UNCHANGED <<pt_x_list, pt_y_list, pt_z, pt_offset>>
           /\ UNCHANGED pt_others

PathNext ==
    \/ PathAddPoint
    \/ PathRemovePoint
    \/ PathGetInterpolation
    \/ PathUpdateOffset
    \/ PathPositionToXyCall
    \/ PathGetPathPosition2d

-----------------------------------------------------------------------------
(* PathCollection (autotrack/core/path.py) *)

\* The Path objects of the program; two paths are equal only when they are
\* the same object. One is empty, one has a single point, two are lines
\* along x at different y.
PathObjects ==
    [empty |-> [x_list |-> <<>>, y_list |-> <<>>, offset |-> 0],
     point |-> [x_list |-> <<0>>, y_list |-> <<0>>, offset |-> 0],
     upper |-> [x_list |-> <<0, PathUnit * MaxPathX>>, y_list |-> <<0, 0>>, offset |-> 0],
     lower |-> [x_list |-> <<0, PathUnit * MaxPathX>>,
                y_list |-> <<2 * PathUnit, 2 * PathUnit>>, offset |-> PathUnit]]
PathIds == DOMAIN PathObjects
PcTimePoints == 1..2
PcParticles ==
    {[x |-> x, y |-> y, time_point_number |-> t] :
        x \in {PathUnit + 3}, y \in {0, PathUnit + 5, 2 * PathUnit}, t \in PcTimePoints}

\* path.get_path_position_2d(particle) of a path object
PathPositionOf(path, particle) ==
    LET values == GetInterpolation2d(None, PathObjects[path].x_list, PathObjects[path].y_list)
        position == GetPathPosition2d(values[1], values[2], PathObjects[path].offset, particle)
    IN IF position = None THEN None
       ELSE Some([path |-> path, pos |-> position[1].pos, distance |-> position[1].distance])

\* PathCollection.get_path_position_2d, the loop over the paths from path i
\* on: "position.distance" of a position that is None raises AttributeError
RECURSIVE LowestDistancePosition(_, _, _, _)
LowestDistancePosition(paths, particle, i, lowest_distance_position) ==
    IF i > Len(paths) THEN [raised |-> None, result |-> lowest_distance_position]
    ELSE LET position == PathPositionOf(paths[i], particle)
         IN IF lowest_distance_position = None
            THEN LowestDistancePosition(paths, particle, i + 1, position)
            ELSE IF position = None
            THEN [raised |-> Some("AttributeError"), result |-> None]
            ELSE LowestDistancePosition(paths, particle, i + 1,
                    IF position[1].distance < lowest_distance_position[1].distance
                    THEN position ELSE lowest_distance_position)

\* PathCollection.get_path_position_2d(particle)
CollectionGetPathPosition2d(all_paths, particle) ==
    IF particle.time_point_number \notin DOMAIN all_paths
    THEN [raised |-> None, result |-> None]
    ELSE LowestDistancePosition(all_paths[particle.time_point_number], particle, 1, None)

\* list.remove(path): the first occurrence; ValueError is ignored
ListRemove(list, path) ==
    IF \E i \in 1..Len(list) : list[i] = path
    THEN LET first == SetMin({i \in 1..Len(list) : list[i] = path})
         IN SubSeq(list, 1, first - 1) \o SubSeq(list, first + 1, Len(list))
    ELSE list

PcNoCall == [op |-> "none"]

PcIdle ==
    /\ pc_paths = <<>>
    /\ pc_call = PcNoCall

PcInit == PcIdle

\* paths.add_path(time_point, path)
PcAddPath ==
    \E time_point \in PcTimePoints, path \in PathIds :
        /\ time_point \in DOMAIN pc_paths => Len(pc_paths[time_point]) < MaxPaths
        /\ pc_paths' =
              IF time_point \notin DOMAIN pc_paths
              THEN [t \in DOMAIN pc_paths \cup {time_point} |->
                       IF t = time_point THEN <<path>> ELSE pc_paths[t]]
              ELSE [pc_paths EXCEPT ![time_point] = Append(@, path)]
        /\ pc_call' = [op |-> "add_path"]
        /\ UNCHANGED pc_others

\* paths.remove_path(time_point, path)
PcRemovePath ==
    \E time_point \in PcTimePoints, path \in PathIds :
        /\ pc_paths' =
              IF time_point \notin DOMAIN pc_paths THEN pc_paths
              ELSE [pc_paths EXCEPT ![time_point] = ListRemove(@, path)]
        /\ pc_call' = [op |-> "remove_path"]
        /\ UNCHANGED pc_others

\* paths.get_path_position_2d(particle)
PcGetPathPosition ==
    \E particle \in PcParticles :
        /\ pc_call' = [op |-> "get_path_position_2d", particle |-> particle,
                       outcome |-> CollectionGetPathPosition2d(pc_paths, particle)]
        /\ UNCHANGED pc_paths
        /\ UNCHANGED pc_others

PcNext == PcAddPath \/ PcRemovePath \/ PcGetPathPosition

-----------------------------------------------------------------------------
(* Errors of the links (organoid_tracker/linking_analysis/errors.py) *)

\* class Error(Enum): the members
ErrorKinds ==
    {"NO_FUTURE_POSITION", "POTENTIALLY_NOT_A_MOTHER", "POTENTIALLY_SHOULD_BE_A_MOTHER",
     "TOO_MANY_DAUGHTER_CELLS", "NO_PAST_POSITION", "CELL_MERGE",
     "POTENTIALLY_WRONG_DAUGHTERS", "YOUNG_MOTHER", "LOW_MOTHER_SCORE", "SHRUNK_A_LOT",
     "MOVED_TOO_FAST", "FAILED_SHAPE", "UNCERTAIN_POSITION", "LOW_LINK_SCORE"}

\* an error kind of a later version, without an entry in the table
LaterErrorKinds == {"LATER_ERROR_KIND"}

\* __info
ErrorInfo ==
    [NO_FUTURE_POSITION |->
        <<"WARNING", "This cell has no links to the future. Please check if this is correct.">>,
     POTENTIALLY_NOT_A_MOTHER |->
        <<"WARNING", "This cell is maybe not a mother; nearby cell has similar likeliness.">>,
     POTENTIALLY_SHOULD_BE_A_MOTHER |->
        <<"WARNING", "This cell is possibly a mother; its score is high enough.">>,
     TOO_MANY_DAUGHTER_CELLS |->
        <<"ERROR", "This cell has more than two daughter cells. This is impossible.">>,
     NO_PAST_POSITION |-> <<"ERROR", "This cell popped up out of nothing.">>,
     CELL_MERGE |->
        <<"ERROR", "Two cells merged together into this cell. This is impossible.">>,
     POTENTIALLY_WRONG_DAUGHTERS |->
        <<"WARNING", "One of the two daughter cells is maybe wrong.">>,
     YOUNG_MOTHER |->
        <<"ERROR", "This is most likely not a mother cell: it is a very young cell.">>,
     LOW_MOTHER_SCORE |-> <<"WARNING", "This cell is probably not a mother cell.">>,
     SHRUNK_A_LOT |->
        <<"WARNING",
          "This cell just shrank a lot in size. It may be a mother or daughter cell.">>,
     MOVED_TOO_FAST |->
        <<"WARNING",
          "This cell just moved very quickly. The link coming from the past may be wrong.">>,
     FAILED_SHAPE |->
        <<"WARNING",
          "This cell has an irregular shape. Maybe it was a misdetection, or it should be a mother cell.">>,
     UNCERTAIN_POSITION |-> <<"WARNING", "Uncertain if there actually is a cell here.">>,
     LOW_LINK_SCORE |-> <<"WARNING", "This is probably not a correct link.">>]

\* _get_severity(error): KeyError gives Severity.ERROR
GetSeverityOrWarning(error) ==
    IF error \in DOMAIN ErrorInfo THEN ErrorInfo[error][1] ELSE "WARNING"
GetSeverity(error) ==
    IF error \in DOMAIN ErrorInfo THEN ErrorInfo[error][1] ELSE "ERROR"

\* _get_message(error): KeyError gives "Unknown error code " + str(error)
GetMessage(error) ==
    IF error \in DOMAIN ErrorInfo THEN ErrorInfo[error][2]
    ELSE "Unknown error code " \o "Error." \o error

\* The positions of the links: one at time point 1, one at time point 2
\* and MaxDaughters at time point 3
ErPosition(id, t) == [id |-> id, time_point_number |-> t]
ErFirst == ErPosition(0, 1)
ErMother == ErPosition(1, 2)
ErLast == {ErPosition(1 + k, 3) : k \in 1..MaxDaughters}
ErPositions == {ErFirst, ErMother} \cup ErLast
\* links go to a later time point
ErPossibleLinks ==
    {<<ErFirst, ErMother>>} \cup {<<ErFirst, p>> : p \in ErLast}
                            \cup {<<ErMother, p>> : p \in ErLast}
ErScores == {None, Some(0), Some(2)}
MotherScoreThreshold == 1

\* links.find_futures(position), links.find_pasts(position)
FindFutures(links, position) == {link[2] : link \in {l \in links : l[1] = position}}
FindPasts(links, position) == {link[1] : link \in {l \in links : l[2] = position}}

\* The rules for one position: the links to the future first, then the
\* score of the division, then the links to the past
GetErrorPastFirst(links, score, position) ==
    IF FindPasts(links, position) = {} /\ position.time_point_number > 1
    THEN Some("NO_PAST_POSITION")
    ELSE IF Cardinality(FindPasts(links, position)) > 1 THEN Some("CELL_MERGE")
    ELSE IF Cardinality(FindFutures(links, position)) > 2
    THEN Some("TOO_MANY_DAUGHTER_CELLS")
    ELSE None
GetError(links, score, position) ==
    LET futures == FindFutures(links, position)
        pasts == FindPasts(links, position)
    IN IF Cardinality(futures) > 2 THEN Some("TOO_MANY_DAUGHTER_CELLS")
       ELSE IF futures = {} /\ position.time_point_number < 3
       THEN Some("NO_FUTURE_POSITION")
       ELSE IF /\ Cardinality(futures) = 2 /\ position = ErMother
               /\ score # None /\ score[1] < MotherScoreThreshold
       THEN Some("LOW_MOTHER_SCORE")
       ELSE IF /\ Cardinality(futures) < 2 /\ position = ErMother
               /\ score # None /\ score[1] > MotherScoreThreshold
       THEN Some("POTENTIALLY_SHOULD_BE_A_MOTHER")
       ELSE IF pasts = {} /\ position.time_point_number > 1 THEN Some("NO_PAST_POSITION")
       ELSE IF Cardinality(pasts) > 1 THEN Some("CELL_MERGE")
       ELSE None

NotClassified == [position \in ErPositions |-> Some("not classified")]
ErNoLookup == [error |-> "none", severity |-> "none", message |-> "none"]

ErIdle ==
    /\ er_links = {}
    /\ er_score = None
    /\ er_errors = NotClassified
    /\ er_lookup = ErNoLookup

ErInit == ErIdle

\* a link is added by the linking algorithm or by hand
ErAddLink ==
    \E link \in ErPossibleLinks \ er_links :
        /\ er_errors = NotClassified
        /\ er_links' = er_links \cup {link}
        /\ UNCHANGED <<er_score, er_errors, er_lookup>>
        /\ UNCHANGED er_others

\* the division of the mother gets a score
ErSetScore ==
    \E score \in ErScores \ {er_score} :
        /\ er_errors = NotClassified
        /\ er_score' = score
        /\ UNCHANGED <<er_links, er_errors, er_lookup>>
        /\ UNCHANGED er_others

\* the rule engine classifies every position
ErClassify ==
    /\ er_errors = NotClassified
    /\ er_errors' = [position \in ErPositions |-> GetError(er_links, er_score, position)]
    /\ UNCHANGED <<er_links, er_score, er_lookup>>
    /\ UNCHANGED er_others

\* error.get_severity() and error.get_message(), of the error of a position
\* or of any error kind
ErLookup ==
    \E error \in ErrorKinds \cup LaterErrorKinds :
        /\ er_errors # NotClassified
        /\ er_lookup' = [error |-> error, severity |-> GetSeverity(error),
                         message |-> GetMessage(error)]
        /\ UNCHANGED <<er_links, er_score, er_errors>>
        /\ UNCHANGED er_others

ErNext == ErAddLink \/ ErSetScore \/ ErClassify \/ ErLookup

-----------------------------------------------------------------------------
(* TimePoint.mother_score *)

\* Family.__hash__: the hash of the mother plus the hashes of the daughters
RECURSIVE SumOfHashes(_)
SumOfHashes(particles) ==
    IF particles = {} THEN 0
    ELSE LET p == CHOOSE q \in particles : TRUE
         IN ParticleHash(p) + SumOfHashes(particles \ {p})
FamilyHash(self) == ParticleHash(self.mother) + SumOfHashes(self.daughters)

\* set.__eq__ on two sets of particles
PySetEq(a, b) ==
    /\ Cardinality(a) = Cardinality(b)
    /\ \A p \in a : \E q \in b : SameSetElement(p, q)
\* Family.__eq__
FamilyEq(self, other) ==
    /\ ParticleEq(other.mother, self.mother)
    /\ PySetEq(other.daughters, self.daughters)
\* two families are the same dict key when their hashes are equal and __eq__ holds
SameKey(f, g) == FamilyHash(f) = FamilyHash(g) /\ FamilyEq(f, g)

\* The time point of the model, and the families of the calls: mothers
\* without a time point, of time point 0 and of time point 1 (two of them half
\* a pixel apart in y), each with two daughters or with the same daughter twice
MsTimePointNumber == 1
MsMothers ==
    {Particle(0, 0, 0), Position(0, 0, 0, 0), Position(0, 0, 0, MsTimePointNumber),
     Position(0, 1, 0, MsTimePointNumber), Position(Scale, 0, 0, MsTimePointNumber)}
MsFamilies ==
    {Family(mother, Position(0, 0, 0, MsTimePointNumber + 1), daughter2) :
        mother \in MsMothers,
        daughter2 \in {Position(0, 0, 0, MsTimePointNumber + 1),
                       Position(Scale, 0, 0, MsTimePointNumber + 1)}}
MsScores == {Score([mother |-> v]) : v \in 1..MaxScoreValue}
\* for each family that can be hashed, the families that are the same dict key
MsHashable == {f \in MsFamilies : f.mother.time_point_number # None}
SameKeys == [f \in MsHashable |-> {g \in MsHashable : SameKey(f, g)}]

\* A dict is the set of its (key, value) pairs.
DictHasKey(dict, key) == \E e \in dict : e[1] \in SameKeys[key]
DictGet(dict, key) == (CHOOSE e \in dict : e[1] \in SameKeys[key])[2]
\* dict[key] = value keeps the key that is stored already
DictSet(dict, key, value) ==
    IF DictHasKey(dict, key)
    THEN {IF e[1] \in SameKeys[key] THEN <<e[1], value>> ELSE e : e \in dict}
    ELSE dict \cup {<<key, value>>}

\* TimePoint.mother_score(family, score) of the time point with the given
\* number: what it raises, what it returns and the scores it leaves
MotherScore(mother_scores, time_point_number, family, score) ==
    IF family.mother.time_point_number # Some(time_point_number)
    THEN [raised |-> Some("KeyError"), result |-> None, scores |-> mother_scores]
    ELSE IF score # None
    THEN [raised |-> None, result |-> score,
          scores |-> DictSet(mother_scores, family, score[1])]
    ELSE IF DictHasKey(mother_scores, family)
    THEN [raised |-> None, result |-> Some(DictGet(mother_scores, family)),
          scores |-> mother_scores]
    ELSE [raised |-> Some("KeyError"), result |-> None, scores |-> mother_scores]

MsNoCall == [op |-> "none"]
MsIdle ==
    /\ ms_scores = {}
    /\ ms_given = [family \in MsFamilies |-> None]
    /\ ms_call = MsNoCall
\* TimePoint(1)
MsInit == MsIdle

\* time_point.mother_score(family, score)
MsSetScore ==
    \E family \in MsFamilies, score \in MsScores :
        LET call == MotherScore(ms_scores, MsTimePointNumber, family, Some(score))
        IN /\ ms_scores' = call.scores
           /\ ms_given' = IF call.raised = None
                          THEN [ms_given EXCEPT ![family] = Some(score)]
                          ELSE ms_given
           /\ ms_call' = [op |-> "set", family |-> family, raised |-> call.raised,
                          result |-> call.result]
           /\ UNCHANGED ms_others

\* time_point.mother_score(family)
MsGetScore ==
    \E family \in MsFamilies :
        LET call == MotherScore(ms_scores, MsTimePointNumber, family, None)
        IN /\ ms_scores' = call.scores
           /\ ms_call' = [op |-> "get", family |-> family, raised |-> call.raised,
                          result |-> call.result]
           /\ UNCHANGED ms_given
           /\ UNCHANGED ms_others

MsNext == MsSetScore \/ MsGetScore

-----------------------------------------------------------------------------
(* ImageOffsets *)

\* The time points of the model, negative ones included, and the offsets
OfTimePoints == (-MaxOffsetTime)..MaxOffsetTime
OfShifts == 0..MaxShift
\* Position(0, 0, 0), the offset of a time point that was never updated
ZeroOffset == <<0, 0, 0>>

\* ImageOffsets()
NewImageOffsets == [t \in OfTimePoints |-> ZeroOffset]
\* offsets.of_time_point(TimePoint(t))
OfTimePointOf(offsets, t) == offsets[t]
\* the time points of update_offset: min_time_point up to but not max_time_point
ExclusiveRange(min_time_point, max_time_point, t) ==
    min_time_point <= t /\ t < max_time_point
\* the time points of update_offset: both bounds inclusive
InclusiveRange(min_time_point, max_time_point, t) ==
    min_time_point <= t /\ t <= max_time_point
\* offsets.update_offset(dx, dy, dz, min_time_point, max_time_point) on an
\* object without an earlier update
UpdateOffset(offsets, dx, dy, dz, min_time_point, max_time_point) ==
    [t \in DOMAIN offsets |->
        IF InclusiveRange(min_time_point, max_time_point, t)
        THEN <<dx, dy, dz>> ELSE offsets[t]]

OfIdle ==
    /\ of_offset = NewImageOffsets
    /\ of_updated = None
    /\ of_query = None
OfInit == OfIdle

\* offsets = ImageOffsets()
OfNew ==
    /\ of_updated # None
    /\ of_offset' = NewImageOffsets
    /\ of_updated' = None
    /\ of_query' = None
    /\ UNCHANGED of_others

\* offsets.update_offset(dx, dy, dz, min_time_point=..., max_time_point=...),
\* the first update of the object
OfUpdateOffset ==
    \E dx \in OfShifts, dy \in OfShifts, dz \in OfShifts,
       min_time_point \in OfTimePoints, max_time_point \in OfTimePoints :
        /\ of_updated = None
        /\ of_offset' = UpdateOffset(of_offset, dx, dy, dz, min_time_point, max_time_point)
        /\ of_updated' = Some([dx |-> dx, dy |-> dy, dz |-> dz,
                               min_time_point |-> min_time_point,
                               max_time_point |-> max_time_point])
        /\ of_query' = None
        /\ UNCHANGED of_others

\* offsets.of_time_point(TimePoint(t))
OfOfTimePoint ==
    \E t \in OfTimePoints :
        /\ of_query' = Some([time_point |-> t, result |-> OfTimePointOf(of_offset, t)])
        /\ UNCHANGED <<of_offset, of_updated>>
        /\ UNCHANGED of_others

OfNext == OfNew \/ OfUpdateOffset \/ OfOfTimePoint

-----------------------------------------------------------------------------
(* GUI actions: new, close, load, save, exit *)

\* Experiment(), with the undo/redo marker of unsaved changes
GuExperiment(id, data) == [id |-> id, data |-> data, unsaved |-> FALSE]
\* what the user and the file system answer
GuAnswers == {"yes", "no", "cancel"}
\* a file dialog gives None or "" when it is cancelled
GuNone == "None"
GuSaveFiles == {GuNone, "", "data.aut"}
GuSaveOutcomes == {"written", "raises"}

\* save_tracking_data(gui_experiment) ignoring a cancelled file dialog
SaveTrackingDataMarksFirst(experiment, file, data_file, save_outcome) ==
    IF save_outcome = "raises"
    THEN [raised |-> TRUE, returned |-> None,
          file |-> Some([id |-> experiment.id, data |-> experiment.data, complete |-> FALSE]),
          experiment |-> [experiment EXCEPT !.unsaved = FALSE]]
    ELSE [raised |-> FALSE, returned |-> Some(TRUE),
          file |-> Some([id |-> experiment.id, data |-> experiment.data, complete |-> TRUE]),
          experiment |-> [experiment EXCEPT !.unsaved = FALSE]]
\* save_tracking_data(gui_experiment): prompt_save_file, save_data_to_json,
\* mark_everything_saved
SaveTrackingData(experiment, file, data_file, save_outcome) ==
    IF data_file = GuNone \/ data_file = ""
    THEN [raised |-> FALSE, returned |-> Some(FALSE), file |-> file,
          experiment |-> experiment]
    ELSE IF save_outcome = "raises"
    THEN [raised |-> TRUE, returned |-> None,
          file |-> Some([id |-> experiment.id, data |-> experiment.data, complete |-> FALSE]),
          experiment |-> experiment]
    ELSE [raised |-> FALSE, returned |-> Some(TRUE),
          file |-> Some([id |-> experiment.id, data |-> experiment.data, complete |-> TRUE]),
          experiment |-> [experiment EXCEPT !.unsaved = FALSE]]

\* ask_save_unsaved_changes(gui_experiment)
AskSaveUnsavedChanges(experiment, file, answer, data_file, save_outcome) ==
    IF ~experiment.unsaved
    THEN [raised |-> FALSE, returned |-> Some(TRUE), file |-> file,
          experiment |-> experiment, asked |-> FALSE]
    ELSE IF answer = "yes"
    THEN LET saved == SaveTrackingData(experiment, file, data_file, save_outcome)
         IN [raised |-> saved.raised,
             returned |-> IF saved.raised THEN None
                          ELSE IF saved.returned = Some(TRUE) THEN Some(TRUE)
                          ELSE Some(FALSE),
             file |-> saved.file, experiment |-> saved.experiment, asked |-> TRUE]
    ELSE IF answer = "no"
    THEN [raised |-> FALSE, returned |-> Some(TRUE), file |-> file,
          experiment |-> experiment, asked |-> TRUE]
    ELSE [raised |-> FALSE, returned |-> Some(FALSE), file |-> file,
          experiment |-> experiment, asked |-> TRUE]

\* the record of an action that started with ask_save_unsaved_changes
GuCall(op, ask, answer, data_file, save_outcome, before) ==
    [op |-> op, asked |-> ask.asked, answer |-> answer, data_file |-> data_file,
     save_outcome |-> save_outcome, ask_result |-> ask.returned,
     raised |-> ask.raised, before |-> before]

GuIdle ==
    /\ gu_experiment = GuExperiment(1, 0)
    /\ gu_created = 1
    /\ gu_file = None
    /\ gu_quit = FALSE
    /\ gu_call = [op |-> "none"]
GuInit == GuIdle

\* window.perform_data_action(action): the data changes and is unsaved
GuPerformDataAction ==
    /\ ~gu_quit
    /\ gu_experiment.data < MaxEdits
    /\ gu_experiment' = [gu_experiment EXCEPT !.data = @ + 1, !.unsaved = TRUE]
    /\ gu_call' = [op |-> "perform_data_action"]
    /\ UNCHANGED <<gu_created, gu_file, gu_quit>>
    /\ UNCHANGED gu_others

\* new(window)
GuNew ==
    \E answer \in GuAnswers, data_file \in GuSaveFiles, save_outcome \in GuSaveOutcomes :
        LET ask == AskSaveUnsavedChanges(gu_experiment, gu_file, answer, data_file, save_outcome)
        IN /\ ~gu_quit
           /\ gu_created < MaxExperiments
           /\ gu_file' = ask.file
           /\ IF ask.returned = Some(TRUE)
              THEN /\ gu_experiment' = GuExperiment(gu_created + 1, 0)
                   /\ gu_created' = gu_created + 1
              ELSE /\ gu_experiment' = ask.experiment
                   /\ UNCHANGED gu_created
           /\ gu_call' = GuCall("new", ask, answer, data_file, save_outcome, gu_experiment)
           /\ UNCHANGED gu_quit
           /\ UNCHANGED gu_others

\* close_experiment(window): the window is left with an empty experiment
GuCloseExperiment ==
    \E answer \in GuAnswers, data_file \in GuSaveFiles, save_outcome \in GuSaveOutcomes :
        LET ask == AskSaveUnsavedChanges(gu_experiment, gu_file, answer, data_file, save_outcome)
        IN /\ ~gu_quit
           /\ gu_created < MaxExperiments
           /\ gu_file' = ask.file
           /\ IF ask.returned = Some(TRUE)
              THEN /\ gu_experiment' = GuExperiment(gu_created + 1, 0)
                   /\ gu_created' = gu_created + 1
              ELSE /\ gu_experiment' = ask.experiment
                   /\ UNCHANGED gu_created
           /\ gu_call' = GuCall("close_experiment", ask, answer, data_file, save_outcome,
                                gu_experiment)
           /\ UNCHANGED gu_quit
           /\ UNCHANGED gu_others

\* io.load_data_file(file_name) raises for a file that is not there or not complete
GuLoadRaises(file, file_name) ==
    file_name = "" \/ file = None \/ (file # None /\ ~file[1].complete)

\* load_tracking_data(window)
GuLoadTrackingData ==
    \E answer \in GuAnswers, data_file \in GuSaveFiles, save_outcome \in GuSaveOutcomes,
       file_name \in GuSaveFiles :
        LET ask == AskSaveUnsavedChanges(gu_experiment, gu_file, answer, data_file, save_outcome)
            loads == /\ ask.returned = Some(TRUE)
                     /\ file_name # GuNone
                     /\ ~GuLoadRaises(ask.file, file_name)
        IN /\ ~gu_quit
           /\ gu_created < MaxExperiments
           /\ gu_file' = ask.file
           /\ IF loads
              THEN /\ gu_experiment' = GuExperiment(gu_created + 1, ask.file[1].data)
                   /\ gu_created' = gu_created + 1
              ELSE /\ gu_experiment' = ask.experiment
                   /\ UNCHANGED gu_created
           /\ gu_call' = [GuCall("load_tracking_data", ask, answer, data_file, save_outcome,
                                 gu_experiment)
                          EXCEPT !.raised = ask.raised \/
                                     (/\ ask.returned = Some(TRUE) /\ file_name # GuNone
                                      /\ GuLoadRaises(ask.file, file_name))]
           /\ UNCHANGED gu_quit
           /\ UNCHANGED gu_others

\* save_tracking_data(gui_experiment), from the menu
GuSaveTrackingData ==
    \E data_file \in GuSaveFiles, save_outcome \in GuSaveOutcomes :
        LET saved == SaveTrackingData(gu_experiment, gu_file, data_file, save_outcome)
        IN /\ ~gu_quit
           /\ gu_file' = saved.file
           /\ gu_experiment' = saved.experiment
           /\ gu_call' = [op |-> "save_tracking_data", data_file |-> data_file,
                          save_outcome |-> save_outcome, raised |-> saved.raised,
                          before |-> gu_experiment]
           /\ UNCHANGED <<gu_created, gu_quit>>
           /\ UNCHANGED gu_others

\* ask_exit(gui_experiment)
GuAskExit ==
    \E answer \in GuAnswers, data_file \in GuSaveFiles, save_outcome \in GuSaveOutcomes :
        LET ask == AskSaveUnsavedChanges(gu_experiment, gu_file, answer, data_file, save_outcome)
        IN /\ ~gu_quit
           /\ gu_file' = ask.file
           /\ gu_experiment' = ask.experiment
           /\ gu_quit' = (ask.returned = Some(TRUE))
           /\ gu_call' = GuCall("ask_exit", ask, answer, data_file, save_outcome, gu_experiment)
           /\ UNCHANGED gu_created
           /\ UNCHANGED gu_others

GuNext ==
    \/ GuPerformDataAction
    \/ GuNew
    \/ GuCloseExperiment
    \/ GuLoadTrackingData
    \/ GuSaveTrackingData
    \/ GuAskExit

-----------------------------------------------------------------------------
(* AbstractImageVisualizer._draw_links *)

\* A networkx Graph is the sequence of its edges in the order they were
\* added. network[particle]: the neighbours of the particle, in that order.
RECURSIVE Neighbours(_, _)
Neighbours(edges, particle) ==
    IF edges = <<>> THEN <<>>
    ELSE LET e == Head(edges)
             rest == Neighbours(Tail(edges), particle)
         IN IF e[1] = particle THEN <<e[2]>> \o rest
            ELSE IF e[2] = particle THEN <<e[1]>> \o rest
            ELSE rest
\* _get_links(network, particle)
GetLinks(network, particle) ==
    IF network = None THEN <<>> ELSE Neighbours(network[1], particle)

\* [p for p in links if ...]: the links in the direction that is drawn
RECURSIVE LinksToDraw(_, _, _)
LinksToDraw(links, particle, time_point_number) ==
    IF links = <<>> THEN <<>>
    ELSE LET p == Head(links)
             t == particle.time_point_number[1]
             keep == IF t > time_point_number THEN p.time_point_number[1] < t
                     ELSE IF t < time_point_number THEN p.time_point_number[1] > t
                     ELSE Abs(p.time_point_number[1] - t) >= 2
             rest == LinksToDraw(Tail(links), particle, time_point_number)
         IN IF keep THEN <<p>> \o rest ELSE rest

\* list.__eq__ on two lists of particles
PyListEq(a, b) ==
    /\ Len(a) = Len(b)
    /\ \A i \in 1..Len(a) : a[i] = b[i] \/ ParticleEq(a[i], b[i])
\* links.can_compare_links(): there are scratch links and baseline links
CanCompareLinks(scratch, baseline) == scratch # None /\ baseline # None

\* _draw_links(particle): 1 when the baseline links don't match the scratch links
DrawLinks(scratch, baseline, particle, time_point_number) ==
    LET links_normal == LinksToDraw(GetLinks(scratch, particle), particle, time_point_number)
        links_base == LinksToDraw(GetLinks(baseline, particle), particle, time_point_number)
    IN IF CanCompareLinks(scratch, baseline) /\ ~PyListEq(links_base, links_normal)
       THEN 1 ELSE 0

\* The positions of the model: a mother, its two daughters and a position of
\* the time point before, and the links between them
LkPositions ==
    {Position(0, 0, 0, 0), Position(0, 0, 0, 1),
     Position(0, 0, 0, 2), Position(Scale, 0, 0, 2)}
LkTimePoints == {p.time_point_number[1] : p \in LkPositions}
LkPossibleLinks ==
    {e \in LkPositions \X LkPositions :
        e[1].time_point_number[1] < e[2].time_point_number[1]}
LkHasEdge(edges, e) == \E i \in 1..Len(edges) : edges[i] = e

LkIdle ==
    /\ lk_scratch = None
    /\ lk_baseline = None
    /\ lk_time_point = 1
    /\ lk_call = [op |-> "none"]
LkInit == LkIdle

\* graph.add_edge(particle1, particle2); an edge that is there already keeps
\* its place
AddEdge(links, e) ==
    IF links = None THEN Some(<<e>>)
    ELSE IF LkHasEdge(links[1], e) THEN links
    ELSE Some(Append(links[1], e))
LkRoom(links) == IF links = None THEN TRUE ELSE Len(links[1]) < MaxLinks
\* a link is added to the scratch links
LkAddScratchLink ==
    \E e \in LkPossibleLinks :
        /\ LkRoom(lk_scratch)
        /\ lk_scratch' = AddEdge(lk_scratch, e)
        /\ lk_call' = [op |-> "none"]
        /\ UNCHANGED <<lk_baseline, lk_time_point>>
        /\ UNCHANGED lk_others
\* a link is added to the baseline links
LkAddBaselineLink ==
    \E e \in LkPossibleLinks :
        /\ LkRoom(lk_baseline)
        /\ lk_baseline' = AddEdge(lk_baseline, e)
        /\ lk_call' = [op |-> "none"]
        /\ UNCHANGED <<lk_scratch, lk_time_point>>
        /\ UNCHANGED lk_others

\* the viewer moves to another time point
LkMoveToTimePoint ==
    \E t \in LkTimePoints :
        /\ t # lk_time_point
        /\ lk_time_point' = t
        /\ lk_call' = [op |-> "none"]
        /\ UNCHANGED <<lk_scratch, lk_baseline>>
        /\ UNCHANGED lk_others

\* self._draw_links(particle)
LkDrawLinks ==
    \E particle \in LkPositions :
        /\ lk_call' = [op |-> "_draw_links", particle |-> particle,
                       returned |-> DrawLinks(lk_scratch, lk_baseline, particle, lk_time_point)]
        /\ UNCHANGED <<lk_scratch, lk_baseline, lk_time_point>>
        /\ UNCHANGED lk_others

LkNext == LkAddScratchLink \/ LkAddBaselineLink \/ LkMoveToTimePoint \/ LkDrawLinks

-----------------------------------------------------------------------------
(* create_labels *)

\* output.shape: the label image has one layer of ImageHeight rows of
\* ImageWidth voxels
ImageDepth == 1
ImageHeight == 2
ImageWidth == 2
Voxels == (0..(ImageDepth - 1)) \X (0..(ImageHeight - 1)) \X (0..(ImageWidth - 1))
\* numpy.zeros(shape)
EmptyLabels == [v \in Voxels |-> 0]

\* the index numpy uses on an axis of the given size: a negative index counts
\* from the end, an index outside -size..size-1 raises IndexError
NumpyIndex(i, size) ==
    IF 0 <= i /\ i < size THEN Some(i)
    ELSE IF -size <= i /\ i < 0 THEN Some(i + size)
    ELSE None
\* the voxel output[int(particle.z), int(particle.y), int(particle.x)]
LabelVoxel(particle) ==
    LET z == NumpyIndex(PyInt(particle.z), ImageDepth)
        y == NumpyIndex(PyInt(particle.y), ImageHeight)
        x == NumpyIndex(PyInt(particle.x), ImageWidth)
    IN IF z = None \/ y = None \/ x = None THEN None
       ELSE Some(<<z[1], y[1], x[1]>>)

\* create_labels(particles, output), from label i on
RECURSIVE CreateLabelsFrom(_, _, _)
CreateLabelsFrom(particles, output, i) ==
    IF particles = <<>> THEN [output |-> output, raised |-> "none"]
    ELSE LET voxel == LabelVoxel(Head(particles))
         IN IF voxel = None
            THEN [output |-> output, raised |-> "ValueError"]
            ELSE CreateLabelsFrom(Tail(particles),
                                  [output EXCEPT ![voxel[1]] = i], i + 1)
CreateLabels(particles, output) == CreateLabelsFrom(particles, output, 1)

\* The particles of the calls: inside the image, half a pixel and a pixel
\* before it, and a pixel behind it
LbCoordinates == {-Scale, -1, 0, Scale, ImageWidth * Scale}
LbParticles == {Particle(x, y, 0) : x \in LbCoordinates, y \in {-Scale, 0}}

LbIdle ==
    /\ lb_output = EmptyLabels
    /\ lb_call = [op |-> "none"]
LbInit == LbIdle

\* create_labels(particles, output) on an image of zeros
LbCreateLabels ==
    \E particles \in SeqsUpTo(LbParticles, MaxLabelParticles) :
        LET call == CreateLabels(particles, EmptyLabels)
        IN /\ lb_output' = call.output
           /\ lb_call' = [op |-> "create_labels", particles |-> particles,
                          raised |-> call.raised]
           /\ UNCHANGED lb_others

LbNext == LbCreateLabels

-----------------------------------------------------------------------------
(* Experiment.particle_links_scratch and Experiment.particle_links *)

\* particle_links_scratch(network): the links after the call and the result
ParticleLinksScratch(particle_links, network) ==
    IF network # None
    THEN [particle_links |-> network, returned |-> network]
    ELSE [particle_links |-> particle_links, returned |-> particle_links]
\* particle_links(network): the baseline links after the call and the result
ParticleLinks(particle_links_baseline, network) ==
    IF network # None
    THEN [particle_links_baseline |-> network, returned |-> network]
    ELSE [particle_links_baseline |-> particle_links_baseline,
          returned |-> particle_links_baseline]

\* the networks of the calls: no network, or a graph
PsNetworks == {None} \cup {Some(graph) : graph \in IoGraphs}

\* Experiment.__init__
PsIdle ==
    /\ ps_links = None
    /\ ps_links_baseline = None
    /\ ps_first = None
    /\ ps_call = [op |-> "none"]
PsInit == PsIdle

\* experiment.particle_links_scratch(network)
PsParticleLinksScratch ==
    \E network \in PsNetworks :
        LET call == ParticleLinksScratch(ps_links, network)
        IN /\ ps_links' = call.particle_links
           /\ ps_first' = IF ps_first = None THEN network ELSE ps_first
           /\ ps_call' = [op |-> "particle_links_scratch", network |-> network,
                          returned |-> call.returned]
           /\ UNCHANGED ps_links_baseline
           /\ UNCHANGED ps_others

\* experiment.particle_links(network)
PsParticleLinks ==
    \E network \in PsNetworks :
        LET call == ParticleLinks(ps_links_baseline, network)
        IN /\ ps_links_baseline' = call.particle_links_baseline
           /\ ps_call' = [op |-> "particle_links", network |-> network,
                          returned |-> call.returned]
           /\ UNCHANGED <<ps_links, ps_first>>
           /\ UNCHANGED ps_others

PsNext == PsParticleLinksScratch \/ PsParticleLinks

-----------------------------------------------------------------------------
(* _extract_links_from_track *)

\* float("nan") as a coordinate: a number that is no coordinate of the model
NaN == -1000
\* math.isnan
IsNan(v) == v = NaN
\* a + b on floats: NaN when either one is NaN
NanAdd(a, b) == IF IsNan(a) \/ IsNan(b) THEN NaN ELSE a + b

\* _get_cell_in_time_point(track, time_point_number), the track being the
\* list of its snapshots
GetCellInTimePoint(snapshot) ==
    with_time_point_number(Particle(snapshot.x, snapshot.y, snapshot.z), snapshot.t)

\* _extract_links_from_track: the loop over track.t, from the given
\* current_particle on
RECURSIVE ExtractLinksFrom(_, _, _, _, _)
ExtractLinksFrom(track, links, current_particle, min_time_point, max_time_point) ==
    IF track = <<>> THEN links
    ELSE LET time_point == Head(track).t
         IN IF time_point < min_time_point \/ time_point > max_time_point
            THEN ExtractLinksFrom(Tail(track), links, current_particle,
                                  min_time_point, max_time_point)
            ELSE LET previous_particle == current_particle
                     particle == GetCellInTimePoint(Head(track))
                 IN IF IsNan(NanAdd(NanAdd(particle.x, particle.y), particle.z))
                    THEN ExtractLinksFrom(Tail(track), links, Some(particle),
                                          min_time_point, max_time_point)
                    ELSE ExtractLinksFrom(
                             Tail(track),
                             IF previous_particle # None
                             THEN links \cup {<<previous_particle[1], particle>>}
                             ELSE links,
                             Some(particle), min_time_point, max_time_point)
\* _extract_links_from_track(track_file, links, min_time_point, max_time_point)
ExtractLinksFromTrack(track, links, min_time_point, max_time_point) ==
    ExtractLinksFrom(track, links, None, min_time_point, max_time_point)

\* The tracks of the model: up to MaxTrackLength snapshots at successive time
\* points, each at x = 0 or with an invalid x
GzSnapshots(t) == {[t |-> t, x |-> x, y |-> 0, z |-> 0] : x \in {0, NaN}}
GzTracks ==
    {track \in SeqsUpTo(UNION {GzSnapshots(t) : t \in 0..MaxTrackLength}, MaxTrackLength) :
        /\ Len(track) >= 1
        /\ \A i \in 1..Len(track) : track[i].t = track[1].t + i - 1}
GzRanges == {<<0, MaxTrackLength>>, <<1, MaxTrackLength - 1>>}

GzIdle ==
    /\ gz_links = {}
    /\ gz_call = [op |-> "none", tracks_read |-> 0]
\* links = ParticleLinks()
GzInit == GzIdle

\* One round of the loop of _read_track_files: the next track file is read
\* into the links of the import, with the time point range of the import
GzExtractLinksFromTrack ==
    \E track \in GzTracks, range \in GzRanges :
        /\ gz_call.tracks_read < MaxTrackFiles
        /\ gz_call.tracks_read > 0 =>
              range = <<gz_call.min_time_point, gz_call.max_time_point>>
        /\ gz_links' = ExtractLinksFromTrack(track, gz_links, range[1], range[2])
        /\ gz_call' = [op |-> "_extract_links_from_track", track |-> track,
                       min_time_point |-> range[1], max_time_point |-> range[2],
                       tracks_read |-> gz_call.tracks_read + 1]
        /\ UNCHANGED gz_others

GzNext == GzExtractLinksFromTrack

-----------------------------------------------------------------------------
(* Path.copy (autotrack/core/path.py) *)

\* The list objects that _x_list and _y_list of the two paths refer to: a
\* path holds the identity of its lists, and the lists are changed in place
CpListIds == 1..4
CpOriginal == 1
CpCopied == 2

\* Path(): a path with two new, empty lists
NewPath(x_list, y_list) ==
    [x_list |-> x_list, y_list |-> y_list, z |-> None, interpolation |-> None, offset |-> 0]

\* path.add_point(x, y, z): the lists and the path after the call
AddPoint(lists, path, x, y, z) ==
    [lists |-> [lists EXCEPT ![path.x_list] = Append(@, x), ![path.y_list] = Append(@, y)],
     path |-> [path EXCEPT !.z = IF path.z = None THEN Some(z) ELSE path.z,
                           !.interpolation = InvalidatedInterpolation(path.interpolation)]]

\* Path.copy: the loop, copy.add_point(self._x_list[i], self._y_list[i], self._z)
RECURSIVE CopyPointsFrom(_, _, _, _)
CopyPointsFrom(lists, self, copy, i) ==
    IF i > Len(lists[self.x_list]) THEN [lists |-> lists, path |-> copy]
    ELSE LET added == AddPoint(lists, copy, lists[self.x_list][i], lists[self.y_list][i],
                               self.z[1])
         IN CopyPointsFrom(added.lists, self, added.path, i + 1)

\* Path.copy(), the new path taking the lists x_list and y_list
PathCopy(lists, self, x_list, y_list) ==
    CopyPointsFrom(lists, self, NewPath(x_list, y_list), 1)

\* get_path_position_2d of a path, without the change of its cache
CpPathPosition(lists, path, particle) ==
    LET values == GetInterpolation2d(path.interpolation, lists[path.x_list],
                                     lists[path.y_list])
    IN GetPathPosition2d(values[1], values[2], path.offset, particle)

CpIdle ==
    /\ cp_lists = [id \in CpListIds |-> <<>>]
    /\ cp_paths = <<NewPath(1, 2)>>
    /\ cp_call = [op |-> "none"]
\* path = Path()
CpInit == CpIdle

\* add_point(x, y, z) on the original or on the copy
CpAddPoint ==
    \E p \in DOMAIN cp_paths, x \in PathXs, y \in PathYs :
        LET path == cp_paths[p]
            x_list == cp_lists[path.x_list]
            added == AddPoint(cp_lists, path, x, y, 0)
        IN /\ x_list # <<>> => (x > x_list[Len(x_list)] /\ y = cp_lists[path.y_list][1])
           /\ cp_lists' = added.lists
           /\ cp_paths' = [cp_paths EXCEPT ![p] = added.path]
           /\ cp_call' = [op |-> "add_point", path |-> p]
           /\ UNCHANGED cp_others

\* remove_point(x, y) on the original or on the copy
CpRemovePoint ==
    \E p \in DOMAIN cp_paths, click \in PathClicks :
        LET path == cp_paths[p]
            x_list == cp_lists[path.x_list]
            y_list == cp_lists[path.y_list]
            matches == {i \in 1..Len(x_list) :
                           /\ Abs(x_list[i] - click[1]) < PathUnit
                           /\ Abs(y_list[i] - click[2]) < PathUnit}
            first == SetMin(matches)
            without(list) == SubSeq(list, 1, first - 1) \o SubSeq(list, first + 1, Len(list))
        IN /\ matches # {}
           /\ cp_lists' = [cp_lists EXCEPT ![path.x_list] = without(x_list),
                                           ![path.y_list] = without(y_list)]
           /\ cp_paths' = [cp_paths EXCEPT
                              ![p].interpolation = InvalidatedInterpolation(path.interpolation)]
           /\ cp_call' = [op |-> "remove_point", path |-> p]
           /\ UNCHANGED cp_others

\* update_offset_for_particles([particle]) on the original
CpUpdateOffset ==
    \E p \in {CpOriginal}, particle \in PathParticles :
        LET particles == {particle}
            path == cp_paths[p]
            x_list == cp_lists[path.x_list]
            y_list == cp_lists[path.y_list]
        IN /\ Len(x_list) >= 2
           /\ particles # {}
           /\ cp_paths' = [cp_paths EXCEPT
                  ![p].offset = UpdateOffsetForParticles(x_list, y_list, path.interpolation,
                                                         path.offset, particles),
                  ![p].interpolation = CachedInterpolation(path.interpolation, x_list, y_list)]
           /\ cp_call' = [op |-> "update_offset_for_particles", path |-> p]
           /\ UNCHANGED cp_lists
           /\ UNCHANGED cp_others

\* copy = path.copy()
CpCopy ==
    /\ Len(cp_paths) = 1
    /\ LET copied == PathCopy(cp_lists, cp_paths[CpOriginal], 3, 4)
       IN /\ cp_lists' = copied.lists
          /\ cp_paths' = Append(cp_paths, copied.path)
    /\ cp_call' = [op |-> "copy"]
    /\ UNCHANGED cp_others

CpNext == CpAddPoint \/ CpRemovePoint \/ CpUpdateOffset \/ CpCopy

-----------------------------------------------------------------------------
(* get_closest_particle and get_closest_n_particles, called one after another *)

\* get_closest_particle: the loop, from candidate i on; closest_particle is
\* kept as its index in the candidate list. The result is returned together
\* with the search position as the call leaves it.
RECURSIVE GetClosestParticleFrom(_, _, _, _, _, _)
GetClosestParticleFrom(particles, search_position, ignore_z, closest_particle, closest_distance_squared, i) ==
    IF i > Len(particles)
    THEN [result |-> closest_particle, search_position |-> search_position]
    ELSE LET particle == particles[i]
             position == IF ignore_z THEN [search_position EXCEPT !.z = particle.z]
                         ELSE search_position
             distance == distance_squared(particle, position)
         IN IF distance < closest_distance_squared
            THEN GetClosestParticleFrom(particles, position, ignore_z, Some(i), distance, i + 1)
            ELSE GetClosestParticleFrom(particles, position, ignore_z, closest_particle,
                                        closest_distance_squared, i + 1)

\* get_closest_particle(particles, search_position, ignore_z, max_distance)
GetClosestParticle(particles, search_position, ignore_z, max_distance) ==
    GetClosestParticleFrom(particles, search_position, ignore_z, None,
                           (max_distance * Scale) * (max_distance * Scale), 1)

\* get_closest_n_particles: closest_particles after the first i candidates
RECURSIVE ClosestParticlesUpTo(_, _, _, _, _)
ClosestParticlesUpTo(particles, search_position, amount, max_distance, i) ==
    IF i = 0 THEN <<>>
    ELSE ClosestAfter(ClosestParticlesUpTo(particles, search_position, amount,
                                           max_distance, i - 1),
                      particles, search_position, amount, max_distance, i)

\* get_closest_n_particles(particles, search_position, amount, max_distance)
GetClosestNParticles(particles, search_position, amount, max_distance) ==
    ReturnValue(ClosestParticlesUpTo(particles, search_position, amount, max_distance,
                                     Len(particles)),
                particles)

\* Candidate positions and search positions of the model
CsCoordinates ==
    {with_time_point_number(Particle(0, y, z), 1) : y \in {0, 1}, z \in {0, 1}}
CsSearchPositions ==
    {with_time_point_number(Particle(0, 1, z), 1) : z \in {0, 1}}
CsSearches ==
    {[op |-> "get_closest_particle", ignore_z |-> ignore_z, amount |-> 1,
      max_distance |-> max_distance] :
        ignore_z \in BOOLEAN, max_distance \in NNMaxDistances}
    \cup {[op |-> "get_closest_n_particles", ignore_z |-> FALSE, amount |-> amount,
           max_distance |-> max_distance] :
        amount \in 1..MaxAmount, max_distance \in NNMaxDistances}

CsIdle ==
    /\ cs_particles = <<>>
    /\ cs_search = with_time_point_number(Particle(0, 0, 0), 1)
    /\ cs_history = {}
    /\ cs_call = [op |-> "none", searches |-> 0]
CsInit ==
    /\ cs_particles \in SeqsUpTo(CsCoordinates, MaxSearchCandidates)
    /\ cs_search \in CsSearchPositions
    /\ cs_history = {}
    /\ cs_call = [op |-> "none", searches |-> 0]

\* the first result of a search, or this result when it was not made before
CsFirstResult(search, result) ==
    IF \E h \in cs_history : h[1] = search
    THEN (CHOOSE h \in cs_history : h[1] = search)[2]
    ELSE result
CsRecord(search, result) ==
    /\ cs_history' = cs_history \cup {<<search, CsFirstResult(search, result)>>}
    /\ cs_call' = [op |-> search.op, search |-> search, result |-> result,
                   first_result |-> CsFirstResult(search, result),
                   searches |-> cs_call.searches + 1]

\* get_closest_particle(particles, search_position, ignore_z, max_distance)
\* with the particle objects and the search position object of the caller
CsGetClosestParticle ==
    \E search \in CsSearches :
        LET outcome == GetClosestParticle(cs_particles, cs_search, search.ignore_z,
                                          search.max_distance)
        IN /\ search.op = "get_closest_particle"
           /\ cs_call.searches < MaxSearches
           /\ cs_search' = outcome.search_position
           /\ CsRecord(search, outcome.result)
           /\ UNCHANGED cs_particles
           /\ UNCHANGED cs_others

\* get_closest_n_particles(particles, search_position, amount, max_distance)
CsGetClosestNParticles ==
    \E search \in CsSearches :
        /\ search.op = "get_closest_n_particles"
        /\ cs_call.searches < MaxSearches
        /\ CsRecord(search, GetClosestNParticles(cs_particles, cs_search, search.amount,
                                                 search.max_distance))
        /\ UNCHANGED <<cs_particles, cs_search>>
        /\ UNCHANGED cs_others

CsNext == CsGetClosestParticle \/ CsGetClosestNParticles

-----------------------------------------------------------------------------
(* AbstractImageVisualizer: the displayed layer (image_visualizer.py) *)

\* self._time_point_images is None, or an image stack, of which only
\* len(self._time_point_images), the number of layers, matters here

\* _clamp_z: the z after the call
ClampZNoUpperLimit(z, time_point_images) == IF z < 0 THEN 0 ELSE z
ClampZ(z, time_point_images) ==
    LET not_negative == IF z < 0 THEN 0 ELSE z
    IN IF time_point_images # None /\ not_negative >= time_point_images[1]
       THEN time_point_images[1] - 1
       ELSE not_negative

\* What load_image and reconstruct_image do for a time point: they raise
\* ValueError, or return no image, or an image stack of at least one layer
VwLoadOutcomes ==
    {[raises |-> TRUE, images |-> None], [raises |-> FALSE, images |-> None]}
    \cup {[raises |-> FALSE, images |-> Some(layers)] : layers \in 1..MaxLayers}

\* _load_time_point(time_point): the images that are loaded; nothing is
\* loaded when the images are not shown
LoadedImages(settings, outcome) ==
    IF settings.show_images THEN outcome ELSE [raises |-> FALSE, images |-> None]

VwSettings ==
    [show_images : BOOLEAN, show_reconstruction : BOOLEAN, show_next_time_point : BOOLEAN]
VwToggles == {"show_images", "show_reconstruction", "show_next_time_point"}
VwTimePoints == 0..MaxViewTime

VwIdle ==
    /\ vw_z = 0
    /\ vw_time_point = 0
    /\ vw_images = None
    /\ vw_settings = [show_images |-> FALSE, show_reconstruction |-> FALSE,
                      show_next_time_point |-> FALSE]
    /\ vw_call = [op |-> "none"]

\* AbstractImageVisualizer(window, time_point_number, z, display_settings):
\* self._z = int(z), then _load_time_point
VwInit ==
    \E z \in 0..MaxZ, settings \in VwSettings, outcome \in VwLoadOutcomes :
        LET loaded == LoadedImages(settings, outcome)
        IN /\ ~loaded.raises
           /\ vw_settings = settings
           /\ vw_time_point = 0
           /\ vw_images = loaded.images
           /\ vw_z = ClampZ(z, loaded.images)
           /\ vw_call = [op |-> "none"]

\* _load_time_point(time_point) with the given settings, followed by
\* draw_view when it did not raise ValueError
VwLoadTimePoint(time_point, settings, outcome, op) ==
    LET loaded == LoadedImages(settings, outcome)
    IN /\ vw_settings' = settings
       /\ IF loaded.raises
          THEN UNCHANGED <<vw_time_point, vw_images, vw_z>>
          ELSE /\ vw_time_point' = time_point
               /\ vw_images' = loaded.images
               /\ vw_z' = ClampZ(vw_z, loaded.images)
       /\ vw_call' = [op |-> op, old_z |-> vw_z, raised |-> loaded.raises,
                      redraw |-> ~loaded.raises]

\* _move_in_z(dz)
VwMoveInZ ==
    \E dz \in {-1, 1} :
        /\ vw_z + dz <= MaxZ
        /\ vw_z' = ClampZ(vw_z + dz, vw_images)
        /\ vw_call' = [op |-> "_move_in_z", old_z |-> vw_z, raised |-> FALSE,
                       redraw |-> vw_z' # vw_z]
        /\ UNCHANGED <<vw_time_point, vw_images, vw_settings>>
        /\ UNCHANGED vw_others

\* _move_in_time(dt); refresh_view is _move_in_time(0)
VwMoveInTime ==
    \E dt \in {-1, 0, 1}, outcome \in VwLoadOutcomes :
        /\ vw_time_point + dt \in VwTimePoints
        /\ VwLoadTimePoint(vw_time_point + dt, vw_settings, outcome, "_move_in_time")
        /\ UNCHANGED vw_others

\* _move_to_time(new_time_point_number)
VwMoveToTime ==
    \E new_time_point_number \in VwTimePoints, outcome \in VwLoadOutcomes :
        /\ VwLoadTimePoint(new_time_point_number, vw_settings, outcome, "_move_to_time")
        /\ UNCHANGED vw_others

\* _toggle_showing_images, _toggle_showing_reconstruction and
\* _toggle_showing_next_time_point: the setting is changed, then refresh_view
VwToggle ==
    \E setting \in VwToggles, outcome \in VwLoadOutcomes :
        /\ VwLoadTimePoint(vw_time_point,
                           [vw_settings EXCEPT ![setting] = ~vw_settings[setting]],
                           outcome, "_toggle")
        /\ UNCHANGED vw_others

VwNext == VwMoveInZ \/ VwMoveInTime \/ VwMoveToTime \/ VwToggle

-----------------------------------------------------------------------------
(* Claims about get_closest_n_particles *)

NNDistance(i) == distance_squared(nn_particles[i], nn_search)
NNQualifying ==
    {i \in 1..Len(nn_particles) :
        NNDistance(i) <= (nn_max_distance * Scale) * (nn_max_distance * Scale)}
NNReturnedPositions == {nn_particles[i] : i \in nn_result}

\* C1: the returned set has min(max_amount, number of distinct candidate
\* positions within max_distance) elements, no candidate position left out
\* is strictly closer than a returned one, and the result is empty when no
\* candidate qualifies.
C1_ClosestNSizeAndOrder ==
    nn_pc = "done" =>
        /\ Cardinality(nn_result)
             = Min2(nn_amount, Cardinality({nn_particles[i] : i \in NNQualifying}))
        /\ \A i \in NNQualifying :
              nn_particles[i] \notin NNReturnedPositions
                  => \A j \in nn_result : NNDistance(i) >= NNDistance(j)
        /\ nn_result \subseteq NNQualifying
        /\ (NNQualifying = {} => nn_result = {})

NNInList(i) == \E k \in 1..Len(nn_closest) : nn_closest[k][2] = i
NNSeen == 1..(nn_i - 1)

\* C2: among the candidates seen so far, a later candidate never holds a
\* slot of the best-N list while an earlier candidate at the same distance
\* is left out, and equal distances stay in the order they were seen.
C2_FirstSeenKeepsSlot ==
    /\ \A i \in NNSeen : \A j \in NNSeen :
          (i < j /\ i \in NNQualifying /\ NNDistance(i) = NNDistance(j) /\ NNInList(j))
              => NNInList(i)
    /\ \A k \in 1..Len(nn_closest) : \A l \in 1..Len(nn_closest) :
          (k < l /\ nn_closest[k][1] = nn_closest[l][1])
              => nn_closest[k][2] < nn_closest[l][2]

\* a tie did not fit: three candidates seen at one distance, fewer slots
C2_Witness ==
    /\ nn_pc = "done"
    /\ \E i \in NNSeen : \E j \in NNSeen :
          /\ i < j
          /\ NNDistance(i) = NNDistance(j)
          /\ nn_particles[i] # nn_particles[j]
          /\ NNInList(i)
          /\ ~NNInList(j)
          /\ j \in NNQualifying
          /\ \E k \in NNSeen : NNInList(k) /\ NNDistance(k) < NNDistance(i)

-----------------------------------------------------------------------------
(* Claims about find_clusters *)

CfPositionsOfTimePoint == {p \in CfPositions : p.time_point_number = Some(cf_time_point)}

\* The positions a chain of connections of the time point joins to p
RECURSIVE CfChain(_, _)
CfChain(reached, n) ==
    IF n = 0 THEN reached
    ELSE CfChain(reached \cup
                 {q \in CfPositionsOfTimePoint :
                     \E r \in reached : {r, q} \in cf_connections}, n - 1)
CfJoined(p) == CfChain({p}, Cardinality(CfPositionsOfTimePoint))

\* C3: the clusters returned are the connected components of the
\* connections of the time point: every position of the time point is in
\* exactly one cluster, two positions share a cluster if and only if a
\* chain of connections joins them, and a position without connections is
\* a cluster of its own.
C3_ClustersAreComponents ==
    cf_pc = "done" =>
        /\ \A p \in CfPositionsOfTimePoint :
              Cardinality({k \in 1..Len(cf_clusters) : p \in cf_clusters[k]}) = 1
        /\ \A k \in 1..Len(cf_clusters) :
              /\ cf_clusters[k] # {}
              /\ cf_clusters[k] \subseteq CfPositionsOfTimePoint
              /\ \A p \in cf_clusters[k] : cf_clusters[k] = CfJoined(p)
        /\ \A p \in CfPositionsOfTimePoint :
              (\A c \in cf_connections : p \notin c)
                  => \E k \in 1..Len(cf_clusters) : cf_clusters[k] = {p}

\* the two chains A-B-C and X-Y-Z of the test, found as two clusters
C3_Witness ==
    /\ cf_pc = "done"
    /\ cf_time_point = 1
    /\ cf_connections =
          {{CfPositionList[1], CfPositionList[2]}, {CfPositionList[2], CfPositionList[3]},
           {CfPositionList[4], CfPositionList[5]}, {CfPositionList[5], CfPositionList[6]}}
    /\ Len(cf_clusters) = 2
    /\ cf_clusters[1] = {CfPositionList[1], CfPositionList[2], CfPositionList[3]}
    /\ cf_clusters[2] = {CfPositionList[4], CfPositionList[5], CfPositionList[6]}

-----------------------------------------------------------------------------
(* Claims about loading and saving JSON data files *)

IoInRange(q) ==
    /\ io_loaded.min_time_point <= q.time_point_number[1]
    /\ q.time_point_number[1] <= io_loaded.max_time_point
IoLoadedExperiment == io_loaded.result.experiment[1]
IoLoadedGraphs(experiment) == {g[1] : g \in {experiment.scratch, experiment.baseline} \ {None}}
\* the node-link document load_links_from_json reads from the file
IoFileLinkData ==
    IF "directed" \in DOMAIN io_file.data THEN io_file.data ELSE io_file.data.links

\* C7: an experiment returned by load_data_file has no position and no link
\* outside [min_time_point, max_time_point], and a graph returned by
\* load_links_from_json has exactly the nodes and links of the file that lie
\* inside the range.
C7_LoadKeepsOnlyRange ==
    /\ (io_loaded.call = "load_data_file" /\ io_loaded.result.status = "returned") =>
          /\ \A q \in IoLoadedExperiment.particles : IoInRange(q)
          /\ \A g \in IoLoadedGraphs(IoLoadedExperiment) :
                /\ \A n \in g.nodes : IoInRange(n)
                /\ \A e \in g.edges : IoInRange(e[1]) /\ IoInRange(e[2])
    /\ (io_loaded.call = "load_links_from_json" /\ io_loaded.result.status = "returned") =>
          /\ io_loaded.result.graph[1].nodes
               = {n \in NodeLinkGraph(IoFileLinkData).nodes : IoInRange(n)}
          /\ io_loaded.result.graph[1].edges
               = {e \in NodeLinkGraph(IoFileLinkData).edges :
                     IoInRange(e[1]) /\ IoInRange(e[2])}

IoRoundTrip ==
    /\ io_saved = "save_data_to_json"
    /\ io_file.state = "written"
    /\ io_loaded.call = "load_data_file"
IoSameExperiment ==
    /\ io_loaded.result.status = "returned"
    /\ IoLoadedExperiment.particles = io_experiment.particles
    /\ IoLoadedExperiment.scratch = io_experiment.scratch
    /\ IoLoadedExperiment.baseline = io_experiment.baseline
    /\ IoLoadedExperiment.scores = io_experiment.scores

\* C8 (as claimed): saving an experiment with save_data_to_json and loading
\* the file again yields the same positions, links and family scores.
C8_RoundTrip == IoRoundTrip => IoSameExperiment

\* C8 (amended): the same, when the range given to the load contains every
\* time point of the experiment and the links refer to positions of the
\* experiment only.
IoRangeCoversExperiment ==
    /\ \A q \in io_experiment.particles : IoInRange(q)
    /\ \A g \in IoLoadedGraphs(io_experiment) : g.nodes \subseteq io_experiment.particles
C8_RoundTripInRange ==
    (IoRoundTrip /\ IoRangeCoversExperiment) => IoSameExperiment

\* positions, a scratch link and a scored family went through the file
C8_Witness ==
    /\ IoRoundTrip
    /\ IoRangeCoversExperiment
    /\ IoSameExperiment
    /\ Cardinality(io_experiment.particles) = MaxIoParticles
    /\ \E q \in io_experiment.particles : q.y # q.x
    /\ io_experiment.scratch # None
    /\ io_experiment.scratch[1].edges # {}
    /\ io_experiment.scores # {}
    /\ io_loaded.min_time_point = DefaultMinTimePoint
    /\ io_loaded.max_time_point = DefaultMaxTimePoint

\* C9: loading a data file whose "version" is not "v1" raises ValueError and
\* returns no experiment.
C9_UnknownVersionRaisesValueError ==
    (/\ io_loaded.call = "load_data_file"
     /\ io_file.state = "written"
     /\ "version" \in DOMAIN io_file.data
     /\ io_file.data.version # "v1")
        => /\ io_loaded.result.status = "ValueError"
           /\ io_loaded.result.experiment = None

-----------------------------------------------------------------------------
(* Claims about save_dataframe_to_csv *)

\* C10: when the write to the primary path fails with a permission error,
\* exactly one more write is attempted, to the name suffixed .ALT, and the
\* permission error of the primary path reaches the caller; any other
\* failure of the primary write reaches the caller without a retry.
C10_OriginalErrorAfterOneRetry ==
    (csv_call.attempts # <<>> /\ csv_call.first_error # None) =>
        IF csv_call.first_error[1].type = "PermissionError"
        THEN /\ csv_call.attempts
                  = <<csv_call.csv_file_name, AltName(csv_call.csv_file_name)>>
             /\ csv_call.raised = csv_call.first_error
             /\ csv_call.raised[1].filename = csv_call.csv_file_name
        ELSE /\ csv_call.attempts = <<csv_call.csv_file_name>>
             /\ csv_call.raised = csv_call.first_error

-----------------------------------------------------------------------------
(* Claims about the parent directories of a saved file *)

SvWrites == {i \in 1..Len(sv_log) : sv_log[i].call # "mkdir"}

\* C11: in every save function the parent directories of the target are
\* created before the first attempt to open or write the target, so that
\* every such attempt finds its directory, and creating them raises nothing,
\* also when they exist already.
C11_DirectoriesBeforeWrite ==
    /\ \A i \in SvWrites :
          /\ \E j \in 1..(i - 1) : sv_log[j].call = "mkdir"
          /\ sv_log[i].existed
          /\ sv_log[i].error # Some("FileNotFoundError")
    /\ \A i \in 1..Len(sv_log) : sv_log[i].call = "mkdir" => sv_log[i].error = None

\* a save into a directory two levels deep that did not exist has written
C11_Witness ==
    /\ sv_depth = MaxDepth
    /\ Len(sv_log) >= 2
    /\ sv_log[1].call = "mkdir" /\ ~sv_log[1].existed
    /\ sv_log[2].call \in {"open", "to_csv"} /\ sv_log[2].existed

-----------------------------------------------------------------------------
(* Claims about Path *)

\* the interpolation of the control points the path has now
PathCurrentInterpolation ==
    InterpolationValues(CalculateInterpolation(pt_x_list, pt_y_list), pt_x_list, pt_y_list)

PathCacheIsCurrent ==
    /\ pt_interpolation # None =>
          InterpolationValues(pt_interpolation, pt_x_list, pt_y_list) = PathCurrentInterpolation
    /\ pt_call.op = "get_interpolation_2d" => pt_call.result = PathCurrentInterpolation

PathRemoveWithoutMatch ==
    (pt_call'.op = "remove_point" /\ ~pt_call'.matched)
        => UNCHANGED <<pt_x_list, pt_y_list, pt_interpolation>>

\* C12: whatever add_point, remove_point and get_interpolation_2d calls were
\* made, the cached interpolation, and the one get_interpolation_2d returns,
\* is the interpolation of the control points the path has now; and a
\* remove_point that matches no point changes neither the control points nor
\* the cache.
C12_InterpolationIsCurrent ==
    []PathCacheIsCurrent /\ [][PathRemoveWithoutMatch]_vars

\* a point was added to, or removed from, a path whose interpolation was
\* cached, and the interpolation was asked for again
C12_Witness ==
    /\ pt_call.op \in {"add_point", "remove_point"}
    /\ pt_call.cached
    /\ Len(pt_x_list) >= 2
    /\ pt_interpolation = None

\* the path positions of the particles of the last update, with the offset
\* the path has now
PathPositionsNow(particles) ==
    {GetPathPosition2d(PathCurrentInterpolation[1], PathCurrentInterpolation[2],
                       pt_offset, particle)[1].pos : particle \in particles}

\* C13: after update_offset_for_particles(S) on a path of at least 2 points
\* with S not empty, the smallest path position of the positions of S is
\* exactly 0; a second call with the same S leaves the offset as it is, and
\* so does a call with an empty S or on a path of fewer than 2 points.
C13_LowestPositionIsZero ==
    pt_call.op = "update_offset_for_particles" =>
        /\ (Len(pt_x_list) >= 2 /\ pt_call.particles # {}) =>
              SetMin(PathPositionsNow(pt_call.particles)) = 0
        /\ pt_call.again => ~pt_call.changed
        /\ (Len(pt_x_list) < 2 \/ pt_call.particles = {}) => ~pt_call.changed

\* the length of line i of the interpolation and the length of the lines
\* before it, without rounding
PathLineLength(values, i) ==
    PathDistance(values[1][i], values[2][i], values[1][i + 1], values[2][i + 1])
RECURSIVE PathLengthBefore(_, _)
PathLengthBefore(values, i) ==
    IF i = 1 THEN 0 ELSE PathLengthBefore(values, i - 1) + PathLineLength(values, i - 1)
\* the lines that contain a position along the path
PathLinesContaining(values, raw) ==
    {i \in 1..(Len(values[1]) - 1) :
        /\ PathLengthBefore(values, i) <= raw
        /\ raw < PathLengthBefore(values, i) + PathLineLength(values, i)}
PathPointOnLine(values, i, raw) ==
    <<values[1][i] + ((values[1][i + 1] - values[1][i]) * (raw - PathLengthBefore(values, i)))
                        \div PathLineLength(values, i),
      values[2][i] + ((values[2][i + 1] - values[2][i]) * (raw - PathLengthBefore(values, i)))
                        \div PathLineLength(values, i)>>

PathDistanceOnLine(values, closest, particle) ==
    Sqrt(PathDistanceSquared(values[1][closest.index], values[2][closest.index],
                             particle.x, particle.y) - closest.distance_squared)
PathTotalLength(values) == PathLengthBefore(values, Len(values[1]))

\* C27: in get_path_position_2d the partial distance attributed to the
\* winning segment is never negative and never larger than the length of
\* that segment, so that the raw distance along the path of any position
\* lies between 0 and the total length of the interpolated path, also for a
\* position whose projection is clamped to an end point of the segment.
C27_PartialDistanceWithinSegment ==
    (pt_call.op = "get_path_position_2d" /\ pt_call.result # None) =>
        LET values == PathCurrentInterpolation
            closest == ClosestLine(values[1], values[2], pt_call.particle)
            distance_on_line == PathDistanceOnLine(values, closest, pt_call.particle)
            raw_path_position == RawPathPosition(values[1], values[2], closest,
                                                 pt_call.particle)
        IN /\ distance_on_line >= 0
           /\ distance_on_line <= PathLineLength(values, closest.index)
           /\ raw_path_position >= 0
           /\ raw_path_position <= PathTotalLength(values)

-----------------------------------------------------------------------------
(* Claims about PathCollection *)

\* the paths of the time point of a particle, and those of at least 2 points
PcPathsOf(particle) ==
    IF particle.time_point_number \in DOMAIN pc_paths
    THEN {pc_paths[particle.time_point_number][i] :
             i \in 1..Len(pc_paths[particle.time_point_number])}
    ELSE {}
PcUsablePathsOf(particle) ==
    {path \in PcPathsOf(particle) : Len(PathObjects[path].x_list) >= 2}

\* C15: get_path_position_2d of the collection never raises; it returns
\* nothing when the time point of the position has no path of at least 2
\* points, and otherwise the path position on a path of that time point
\* that no other path of the time point is closer than.
C15_NearestPathOrNothing ==
    pc_call.op = "get_path_position_2d" =>
        LET particle == pc_call.particle
            usable == PcUsablePathsOf(particle)
        IN /\ pc_call.outcome.raised = None
           /\ usable = {} => pc_call.outcome.result = None
           /\ usable # {} =>
                 /\ pc_call.outcome.result # None
                 /\ pc_call.outcome.result[1].path \in usable
                 /\ pc_call.outcome.result = PathPositionOf(pc_call.outcome.result[1].path,
                                                            particle)
                 /\ \A path \in usable :
                       pc_call.outcome.result[1].distance
                          <= PathPositionOf(path, particle)[1].distance

-----------------------------------------------------------------------------
(* Claims about the errors of the links *)

\* C16: every error kind has one severity and one message in the table,
\* NO_PAST_POSITION, TOO_MANY_DAUGHTER_CELLS and CELL_MERGE are errors,
\* NO_FUTURE_POSITION, LOW_MOTHER_SCORE and POTENTIALLY_SHOULD_BE_A_MOTHER
\* are warnings, and the lookup of a kind without an entry gives ERROR and a
\* generic message.
C16_SeverityLookupIsTotal ==
    /\ ErrorKinds \subseteq DOMAIN ErrorInfo
    /\ er_lookup.error \in ErrorKinds =>
          /\ er_lookup.severity \in {"WARNING", "ERROR"}
          /\ er_lookup.severity = ErrorInfo[er_lookup.error][1]
          /\ er_lookup.message = ErrorInfo[er_lookup.error][2]
    /\ er_lookup.error \in {"NO_PAST_POSITION", "TOO_MANY_DAUGHTER_CELLS", "CELL_MERGE"}
          => er_lookup.severity = "ERROR"
    /\ er_lookup.error \in {"NO_FUTURE_POSITION", "LOW_MOTHER_SCORE",
                            "POTENTIALLY_SHOULD_BE_A_MOTHER"}
          => er_lookup.severity = "WARNING"
    /\ er_lookup.error \in LaterErrorKinds =>
          /\ er_lookup.severity = "ERROR"
          /\ er_lookup.message = "Unknown error code Error.LATER_ERROR_KIND"

\* a kind without an entry in the table was looked up
C16_Witness == er_lookup.error \in LaterErrorKinds

ErManyDaughters == {p \in ErPositions : Cardinality(FindFutures(er_links, p)) >= 3}

ErClassified ==
    er_errors # NotClassified =>
        \A p \in ErManyDaughters :
            /\ er_errors[p] = Some("TOO_MANY_DAUGHTER_CELLS")
            /\ GetSeverity(er_errors[p][1]) = "ERROR"

ErLinksKept == er_errors' # er_errors => er_links' = er_links

-----------------------------------------------------------------------------
(* Claims about TimePoint.mother_score *)

\* the call just made was for a family of another time point
MsOtherTimePoint ==
    /\ ms_call.op # "none"
    /\ ms_call.family.mother.time_point_number # Some(MsTimePointNumber)
\* a call for a family of another time point raises KeyError and leaves the
\* stored scores as they were
MsOtherTimePointRaises ==
    MsOtherTimePoint' => (ms_call'.raised = Some("KeyError") /\ ms_scores' = ms_scores)
\* a get for a family of the time point returns the score last set for it
MsGetReturnsGiven ==
    (/\ ms_call.op = "get"
     /\ ~MsOtherTimePoint
     /\ ms_given[ms_call.family] # None)
    => (ms_call.raised = None /\ ms_call.result = ms_given[ms_call.family])

\* C18: getting or setting the mother score of a family on a time point other
\* than the one of the family's mother raises a key error and leaves the
\* stored scores unchanged; for a family of the time point itself, the score
\* that was set is the one every later get returns until it is set again.
C18_MotherScoreOfFamily ==
    []MsGetReturnsGiven /\ [][MsOtherTimePointRaises]_vars

-----------------------------------------------------------------------------
(* Claims about Family *)

\* C19: every Family holds one mother and exactly two daughter positions,
\* also when it is constructed with two equal daughter positions, so that a
\* scored family can always be written with a daughter1 and a daughter2:
\* writing the scored families never raises.
C19_FamilyHasTwoDaughters ==
    /\ \A o \in io_experiment.scores : Cardinality(o.family.daughters) = 2
    /\ io_saved # "IndexError"

-----------------------------------------------------------------------------
(* Claims about ImageOffsets *)

\* of_time_point(t) gave the offset of the update when t is within its time
\* points, both ends included, and (0, 0, 0) otherwise
OfQueryAnswer ==
    of_query # None =>
        LET t == of_query[1].time_point
            u == of_updated[1]
        IN of_query[1].result =
              IF /\ of_updated # None
                 /\ u.min_time_point <= t
                 /\ t <= u.max_time_point
              THEN <<u.dx, u.dy, u.dz>>
              ELSE ZeroOffset
\* an update leaves the time points outside its range as they were
OfOutsideUnchanged ==
    (of_updated = None /\ of_updated' # None) =>
        \A t \in OfTimePoints :
            (t < of_updated'[1].min_time_point \/ t > of_updated'[1].max_time_point)
                => of_offset'[t] = of_offset[t]

-----------------------------------------------------------------------------
(* Claims about the GUI actions *)

\* the step replaced, closed or abandoned the experiment of the window
GuExperimentLeft == gu_experiment'.id # gu_experiment.id \/ (gu_quit' /\ ~gu_quit)
\* the experiment that was left had unsaved changes only when
\* ask_save_unsaved_changes returned True on a "no", or on a "yes" whose
\* save wrote the whole of its data
GuLeftOnlyAfterAsk ==
    GuExperimentLeft =>
        /\ gu_call'.ask_result = Some(TRUE)
        /\ gu_experiment.unsaved =>
              \/ gu_call'.answer = "no"
              \/ /\ gu_call'.answer = "yes"
                 /\ gu_call'.data_file = "data.aut"
                 /\ gu_call'.save_outcome = "written"
                 /\ gu_file' = Some([id |-> gu_experiment.id, data |-> gu_experiment.data,
                                     complete |-> TRUE])
\* a cancel answer, a cancelled file dialog or a failed save aborts the action
GuAborted ==
    (/\ gu_call'.op \in {"new", "close_experiment", "load_tracking_data", "ask_exit"}
     /\ gu_experiment.unsaved
     /\ \/ gu_call'.answer = "cancel"
        \/ gu_call'.answer = "yes" /\ gu_call'.data_file \in {GuNone, ""}
        \/ gu_call'.answer = "yes" /\ gu_call'.save_outcome = "raises")
    => (gu_experiment' = gu_experiment /\ gu_quit' = gu_quit)
\* the marker of unsaved changes is cleared only after the data was written
GuMarkerCleared ==
    (gu_experiment.unsaved /\ gu_experiment'.id = gu_experiment.id /\ ~gu_experiment'.unsaved)
    => gu_file' = Some([id |-> gu_experiment.id, data |-> gu_experiment.data,
                        complete |-> TRUE])

\* C21: an experiment with unsaved changes is replaced, closed or abandoned
\* (new, close_experiment, load_tracking_data, ask_exit) only after
\* ask_save_unsaved_changes returned True: there were no unsaved changes, the
\* user answered no, or the user answered yes and the save completed. A
\* cancel answer, a cancelled file dialog or a failed save aborts the action,
\* and the marker of unsaved changes is cleared only after the data was written.
C21_SaveBeforeLeaving ==
    [][GuLeftOnlyAfterAsk /\ GuAborted /\ GuMarkerCleared]_vars

\* an experiment with unsaved changes was saved on a "yes" and then replaced
C21_Witness ==
    /\ gu_call.op = "load_tracking_data"
    /\ gu_call.before.unsaved
    /\ gu_call.answer = "yes"
    /\ gu_call.ask_result = Some(TRUE)
    /\ gu_experiment.id # gu_call.before.id
    /\ gu_experiment.data = gu_call.before.data

-----------------------------------------------------------------------------
(* Claims about _draw_links *)

\* the positions the particle is linked to in the direction that is drawn
LkLinkedPositions(network, particle) ==
    LET links == LinksToDraw(GetLinks(network, particle), particle, lk_time_point)
    IN {links[i] : i \in 1..Len(links)}

\* C22: when scratch and baseline links can be compared, a position counts as
\* a link difference if and only if the set of positions it is linked to, in
\* the direction being drawn, differs between the scratch and the baseline
\* links; the order in which the graphs list them makes no difference.
C22_DifferenceIffSetsDiffer ==
    (lk_call.op = "_draw_links" /\ CanCompareLinks(lk_scratch, lk_baseline)) =>
        ((lk_call.returned = 1) <=>
            (LkLinkedPositions(lk_scratch, lk_call.particle)
                # LkLinkedPositions(lk_baseline, lk_call.particle)))

-----------------------------------------------------------------------------
(* Claims about Particle.with_time_point_number *)

\* every position stored in a time point carries the number of that time point
ExpNumbersMatch ==
    \A n \in DOMAIN exp_time_points :
        \A i \in 1..Len(exp_time_points[n].particles) :
            exp_time_points[n].particles[i].time_point_number = Some(n)
\* the positions a time point stores stay where and as they are
ExpStoredStay ==
    \A n \in DOMAIN exp_time_points :
        /\ n \in DOMAIN exp_time_points'
        /\ Len(exp_time_points'[n].particles) >= Len(exp_time_points[n].particles)
        /\ \A i \in 1..Len(exp_time_points[n].particles) :
              exp_time_points'[n].particles[i] = exp_time_points[n].particles[i]

\* C23: the time point number of a position is assigned at most once:
\* assigning one to a position that has one raises ValueError and leaves the
\* position unchanged, so every position stored in a time point carries that
\* time point's number and no position is filed under two time points.
C23_TimePointNumberAssignedOnce == []ExpNumbersMatch /\ [][ExpStoredStay]_vars

\* add_particles raised ValueError for a position that is stored already
C23_Witness ==
    /\ exp_raised = "ValueError"
    /\ \E n \in DOMAIN exp_time_points : Len(exp_time_points[n].particles) >= 1
    /\ Cardinality(DOMAIN exp_time_points) >= 2

-----------------------------------------------------------------------------
(* Claims about create_labels *)

\* the voxel the particle lies in, when it lies in the image
LbOwnVoxel(particle) ==
    <<PyInt(particle.z), PyInt(particle.y), PyInt(particle.x)>>
LbInside(particle) ==
    /\ particle.x >= 0 /\ particle.y >= 0 /\ particle.z >= 0
    /\ LbOwnVoxel(particle) \in Voxels

\* C24: create_labels with a position outside the image bounds, a negative
\* coordinate included, gives nothing for that position instead of raising,
\* and never writes a label to a voxel other than the position's own voxel.
C24_OutsideGivesNoLabel ==
    lb_call.op = "create_labels" =>
        /\ lb_call.raised = "none"
        /\ \A v \in Voxels :
              lb_output[v] # 0 =>
                 \E i \in 1..Len(lb_call.particles) :
                    /\ LbInside(lb_call.particles[i])
                    /\ LbOwnVoxel(lb_call.particles[i]) = v

-----------------------------------------------------------------------------
(* Claims about Experiment.particle_links_scratch *)

\* C25: once scratch linking results were set on an experiment, a later call
\* of particle_links_scratch with another network does not replace them: the
\* getter keeps returning the results that were set first.
C25_ScratchLinksNotReplaced ==
    ps_first # None =>
        /\ ps_links = ps_first
        /\ ps_call.op = "particle_links_scratch" => ps_call.returned = ps_first

-----------------------------------------------------------------------------
(* Claims about _extract_links_from_track *)

GzInvalid(particle) == IsNan(particle.x) \/ IsNan(particle.y) \/ IsNan(particle.z)

\* C26: when links are extracted from a legacy track, a position with an
\* invalid (NaN) coordinate is skipped entirely: no link has an invalid
\* position as its source or target, and no position outside
\* [min_time_point, max_time_point] is linked.
C26_InvalidPositionsSkipped ==
    gz_call.op = "_extract_links_from_track" =>
        \A link \in gz_links : \A i \in 1..2 :
            /\ ~GzInvalid(link[i])
            /\ link[i].time_point_number[1] >= gz_call.min_time_point
            /\ link[i].time_point_number[1] <= gz_call.max_time_point

-----------------------------------------------------------------------------
(* Claims about Path.copy *)

\* the control points and the interpolation of a path, in a state
CpPoints(lists, path) == <<lists[path.x_list], lists[path.y_list]>>
CpInterpolation(lists, path) ==
    GetInterpolation2d(path.interpolation, lists[path.x_list], lists[path.y_list])

\* add_point and remove_point on one path leave the other one as it is
CpIndependent ==
    \A p \in DOMAIN cp_paths :
        (cp_call'.op \in {"add_point", "remove_point"} /\ cp_call'.path # p) =>
            /\ CpPoints(cp_lists', cp_paths'[p]) = CpPoints(cp_lists, cp_paths[p])
            /\ CpInterpolation(cp_lists', cp_paths'[p]) = CpInterpolation(cp_lists, cp_paths[p])

\* right after the copy was made, it gives the path position of the original
CpSamePositions ==
    cp_call.op = "copy" =>
        \A particle \in PathParticles :
            LET position == CpPathPosition(cp_lists, cp_paths[CpOriginal], particle)
                of_copy == CpPathPosition(cp_lists, cp_paths[CpCopied], particle)
            IN /\ (position = None) <=> (of_copy = None)
               /\ position # None =>
                     /\ of_copy[1].pos = position[1].pos
                     /\ of_copy[1].distance = position[1].distance

\* C28: Path.copy returns a path that is independent of the original (later
\* add_point and remove_point calls on either one change neither the control
\* points nor the interpolation of the other) and that, at the moment of
\* copying, gives the same path position as the original for every position,
\* the calibration offset included.
C28_CopyIsIndependentAndSame == []CpSamePositions /\ [][CpIndependent]_vars

-----------------------------------------------------------------------------
(* Claims about the nearest-neighbour searches *)

\* a search leaves the candidates and the search position as they were
CsPureRead ==
    cs_call'.searches # cs_call.searches =>
        /\ cs_particles' = cs_particles
        /\ cs_search' = cs_search
\* a search returns what the first search with the same arguments returned
CsSameResult ==
    cs_call.op # "none" => cs_call.result = cs_call.first_result

\* C29: get_closest_particle and get_closest_n_particles are pure reads: for
\* every option, ignore_z included, the candidate positions and the search
\* position have the same coordinates after the call as before, so that two
\* searches with the same arguments return the same result.
C29_SearchesArePureReads == []CsSameResult /\ [][CsPureRead]_vars

-----------------------------------------------------------------------------
(* Claims about the displayed layer of the image viewer *)

VwValidZ ==
    /\ vw_z >= 0
    /\ vw_images # None => vw_z < vw_images[1]
VwNoRedrawWhenClamped ==
    (vw_call'.op = "_move_in_z" /\ vw_z' = vw_z) => ~vw_call'.redraw

-----------------------------------------------------------------------------
(* Claims about Particle.__eq__ *)

\* C4: two positions are equal if and only if they have the same time point
\* number and each of x, y and z differs by less than the epsilon.
C4_EqualIffAllCoordinatesClose ==
    eq_result # None =>
        (eq_result[1] <=>
            /\ eq_self.time_point_number = eq_other.time_point_number
            /\ Abs(eq_self.x - eq_other.x) * EpsilonInverse < Scale
            /\ Abs(eq_self.y - eq_other.y) * EpsilonInverse < Scale
            /\ Abs(eq_self.z - eq_other.z) * EpsilonInverse < Scale)

-----------------------------------------------------------------------------
(* Claims about Experiment *)

ExpPositionsOf(n) ==
    {exp_time_points[n].particles[i] : i \in 1..Len(exp_time_points[n].particles)}

\* C5: no time point stores two positions that are equal to each other.
C5_OneCellPerPosition ==
    \A n \in DOMAIN exp_time_points :
        \A i \in 1..Len(exp_time_points[n].particles) :
            \A j \in 1..Len(exp_time_points[n].particles) :
                i # j => ~ParticleEq(exp_time_points[n].particles[i],
                                     exp_time_points[n].particles[j])

\* C6: first and last are the minimum and maximum time point numbers of the
\* experiment, and a walk from first to last completes and yields every
\* stored position exactly once, also over time point numbers without data.
C6_WalkYieldsEveryPosition ==
    /\ DOMAIN exp_time_points # {} =>
          /\ exp_first # None /\ exp_last # None
          /\ \A n \in DOMAIN exp_time_points : exp_first[1] <= n /\ n <= exp_last[1]
          /\ exp_first[1] \in DOMAIN exp_time_points
          /\ exp_last[1] \in DOMAIN exp_time_points
    /\ (exp_walk.status # "none" /\ DOMAIN exp_time_points # {}) =>
          /\ exp_walk.status = "completed"
          /\ Len(exp_walk.yielded)
               = StoredCount(exp_time_points, DOMAIN exp_time_points)
          /\ \A n \in DOMAIN exp_time_points : \A p \in ExpPositionsOf(n) :
                \E k \in 1..Len(exp_walk.yielded) : exp_walk.yielded[k] = p

-----------------------------------------------------------------------------
(* Specifications *)

InitNearest == NNInit /\ EqIdle /\ ExpIdle /\ CfIdle /\ IoIdle /\ CsvIdle /\ SvIdle /\ PathIdle /\ PcIdle /\ ErIdle /\ MsIdle /\ OfIdle /\ GuIdle /\ LkIdle /\ LbIdle /\ PsIdle /\ GzIdle /\ CpIdle /\ CsIdle /\ VwIdle
SpecNearest == InitNearest /\ [][NNNext]_vars

InitParticle == EqInit /\ NNIdle /\ ExpIdle /\ CfIdle /\ IoIdle /\ CsvIdle /\ SvIdle /\ PathIdle /\ PcIdle /\ ErIdle /\ MsIdle /\ OfIdle /\ GuIdle /\ LkIdle /\ LbIdle /\ PsIdle /\ GzIdle /\ CpIdle /\ CsIdle /\ VwIdle
SpecParticle == InitParticle /\ [][EqNext]_vars

InitExperiment == ExpInit /\ NNIdle /\ EqIdle /\ CfIdle /\ IoIdle /\ CsvIdle /\ SvIdle /\ PathIdle /\ PcIdle /\ ErIdle /\ MsIdle /\ OfIdle /\ GuIdle /\ LkIdle /\ LbIdle /\ PsIdle /\ GzIdle /\ CpIdle /\ CsIdle /\ VwIdle
SpecExperiment == InitExperiment /\ [][ExpNext]_vars

InitClusters == CfInit /\ NNIdle /\ EqIdle /\ ExpIdle /\ IoIdle /\ CsvIdle /\ SvIdle /\ PathIdle /\ PcIdle /\ ErIdle /\ MsIdle /\ OfIdle /\ GuIdle /\ LkIdle /\ LbIdle /\ PsIdle /\ GzIdle /\ CpIdle /\ CsIdle /\ VwIdle
SpecClusters == InitClusters /\ [][CfNext]_vars

InitJson == IoInit /\ NNIdle /\ EqIdle /\ ExpIdle /\ CfIdle /\ CsvIdle /\ SvIdle /\ PathIdle /\ PcIdle /\ ErIdle /\ MsIdle /\ OfIdle /\ GuIdle /\ LkIdle /\ LbIdle /\ PsIdle /\ GzIdle /\ CpIdle /\ CsIdle /\ VwIdle
SpecJson == InitJson /\ [][IoNext]_vars

InitCsv == CsvInit /\ NNIdle /\ EqIdle /\ ExpIdle /\ CfIdle /\ IoIdle /\ SvIdle /\ PathIdle /\ PcIdle /\ ErIdle /\ MsIdle /\ OfIdle /\ GuIdle /\ LkIdle /\ LbIdle /\ PsIdle /\ GzIdle /\ CpIdle /\ CsIdle /\ VwIdle
SpecCsv == InitCsv /\ [][CsvNext]_vars

InitSave == SvInit /\ NNIdle /\ EqIdle /\ ExpIdle /\ CfIdle /\ IoIdle /\ CsvIdle /\ PathIdle /\ PcIdle /\ ErIdle /\ MsIdle /\ OfIdle /\ GuIdle /\ LkIdle /\ LbIdle /\ PsIdle /\ GzIdle /\ CpIdle /\ CsIdle /\ VwIdle
SpecSave == InitSave /\ [][SvNext]_vars

InitPath == PathInit /\ NNIdle /\ EqIdle /\ ExpIdle /\ CfIdle /\ IoIdle /\ CsvIdle /\ SvIdle /\ PcIdle /\ ErIdle /\ MsIdle /\ OfIdle /\ GuIdle /\ LkIdle /\ LbIdle /\ PsIdle /\ GzIdle /\ CpIdle /\ CsIdle /\ VwIdle
SpecPath == InitPath /\ [][PathNext]_vars

InitPathCollection == PcInit /\ NNIdle /\ EqIdle /\ ExpIdle /\ CfIdle /\ IoIdle /\ CsvIdle /\ SvIdle /\ PathIdle /\ ErIdle /\ MsIdle /\ OfIdle /\ GuIdle /\ LkIdle /\ LbIdle /\ PsIdle /\ GzIdle /\ CpIdle /\ CsIdle /\ VwIdle
SpecPathCollection == InitPathCollection /\ [][PcNext]_vars

InitErrors == ErInit /\ NNIdle /\ EqIdle /\ ExpIdle /\ CfIdle /\ IoIdle /\ CsvIdle /\ SvIdle /\ PathIdle /\ PcIdle /\ MsIdle /\ OfIdle /\ GuIdle /\ LkIdle /\ LbIdle /\ PsIdle /\ GzIdle /\ CpIdle /\ CsIdle /\ VwIdle
SpecErrors == InitErrors /\ [][ErNext]_vars

InitScores == MsInit /\ NNIdle /\ EqIdle /\ ExpIdle /\ CfIdle /\ IoIdle /\ CsvIdle /\ SvIdle /\ PathIdle /\ PcIdle /\ ErIdle /\ OfIdle /\ GuIdle /\ LkIdle /\ LbIdle /\ PsIdle /\ GzIdle /\ CpIdle /\ CsIdle /\ VwIdle
SpecScores == InitScores /\ [][MsNext]_vars

InitOffsets == OfInit /\ NNIdle /\ EqIdle /\ ExpIdle /\ CfIdle /\ IoIdle /\ CsvIdle /\ SvIdle /\ PathIdle /\ PcIdle /\ ErIdle /\ MsIdle /\ GuIdle /\ LkIdle /\ LbIdle /\ PsIdle /\ GzIdle /\ CpIdle /\ CsIdle /\ VwIdle
SpecOffsets == InitOffsets /\ [][OfNext]_vars

InitGui == GuInit /\ NNIdle /\ EqIdle /\ ExpIdle /\ CfIdle /\ IoIdle /\ CsvIdle /\ SvIdle /\ PathIdle /\ PcIdle /\ ErIdle /\ MsIdle /\ OfIdle /\ LkIdle /\ LbIdle /\ PsIdle /\ GzIdle /\ CpIdle /\ CsIdle /\ VwIdle
SpecGui == InitGui /\ [][GuNext]_vars

InitLinks == LkInit /\ NNIdle /\ EqIdle /\ ExpIdle /\ CfIdle /\ IoIdle /\ CsvIdle /\ SvIdle /\ PathIdle /\ PcIdle /\ ErIdle /\ MsIdle /\ OfIdle /\ GuIdle /\ LbIdle /\ PsIdle /\ GzIdle /\ CpIdle /\ CsIdle /\ VwIdle
SpecLinks == InitLinks /\ [][LkNext]_vars

InitLabels == LbInit /\ NNIdle /\ EqIdle /\ ExpIdle /\ CfIdle /\ IoIdle /\ CsvIdle /\ SvIdle /\ PathIdle /\ PcIdle /\ ErIdle /\ MsIdle /\ OfIdle /\ GuIdle /\ LkIdle /\ PsIdle /\ GzIdle /\ CpIdle /\ CsIdle /\ VwIdle
SpecLabels == InitLabels /\ [][LbNext]_vars

InitScratchLinks == PsInit /\ NNIdle /\ EqIdle /\ ExpIdle /\ CfIdle /\ IoIdle /\ CsvIdle /\ SvIdle /\ PathIdle /\ PcIdle /\ ErIdle /\ MsIdle /\ OfIdle /\ GuIdle /\ LkIdle /\ LbIdle /\ GzIdle /\ CpIdle /\ CsIdle /\ VwIdle
SpecScratchLinks == InitScratchLinks /\ [][PsNext]_vars

InitGuizela == GzInit /\ NNIdle /\ EqIdle /\ ExpIdle /\ CfIdle /\ IoIdle /\ CsvIdle /\ SvIdle /\ PathIdle /\ PcIdle /\ ErIdle /\ MsIdle /\ OfIdle /\ GuIdle /\ LkIdle /\ LbIdle /\ PsIdle /\ CpIdle /\ CsIdle /\ VwIdle
SpecGuizela == InitGuizela /\ [][GzNext]_vars

InitPathCopy == CpInit /\ NNIdle /\ EqIdle /\ ExpIdle /\ CfIdle /\ IoIdle /\ CsvIdle /\ SvIdle /\ PathIdle /\ PcIdle /\ ErIdle /\ MsIdle /\ OfIdle /\ GuIdle /\ LkIdle /\ LbIdle /\ PsIdle /\ GzIdle /\ CsIdle /\ VwIdle
SpecPathCopy == InitPathCopy /\ [][CpNext]_vars

InitClosest == CsInit /\ NNIdle /\ EqIdle /\ ExpIdle /\ CfIdle /\ IoIdle /\ CsvIdle /\ SvIdle /\ PathIdle /\ PcIdle /\ ErIdle /\ MsIdle /\ OfIdle /\ GuIdle /\ LkIdle /\ LbIdle /\ PsIdle /\ GzIdle /\ CpIdle /\ VwIdle
SpecClosest == InitClosest /\ [][CsNext]_vars

InitViewer == VwInit /\ NNIdle /\ EqIdle /\ ExpIdle /\ CfIdle /\ IoIdle /\ CsvIdle /\ SvIdle /\ PathIdle /\ PcIdle /\ ErIdle /\ MsIdle /\ OfIdle /\ GuIdle /\ LkIdle /\ LbIdle /\ PsIdle /\ GzIdle /\ CpIdle /\ CsIdle
SpecViewer == InitViewer /\ [][VwNext]_vars

====
